---- MODULE Spec2Model ----
(***************************************************************************)
(* A model of gocraft's voxel-world cache hierarchy: the chunk store       *)
(* (World, an LRU of chunks), the durable cache (Store, a bolt database),  *)
(* the remote-sync client, and the render-facing mesh cache (BlockRender). *)
(***************************************************************************)
EXTENDS Integers, Sequences, FiniteSets, TLC

VARIABLES
    chunks,       \* World.chunks: the LRU list of [key, value], most recently used first
    accessLog,    \* history: chunk coordinates by time of last access, latest first
    blockBucket,  \* bolt bucket "block": encoded key -> encoded value
    chunkBucket,  \* bolt bucket "chunk": encoded chunk coordinate -> version stamp
    dbOpen,       \* the bolt database handle is open
    opens,        \* how many times the database file has been opened
    written,      \* history: block -> value of its last successful Store.UpdateBlock
    tall,         \* outcome of the noise functions: the columns generated 13 high
    client,       \* the rpc client: "nil" (no server address), "up" or "shutdown"
    camera,       \* the chunk of NearBlock(game.camera.Pos())
    renderRadius, \* the -r flag
    meshcache,    \* BlockRender.meshcache: chunk coordinate -> mesh
    pass,         \* the background updateMeshCache call: its pc and locals
    forced,       \* history: coordinates stored by forceChunks since the last pass began
    calls,        \* the World.Chunk calls in flight: caller -> pc and locals
    unloaded,     \* history: written blocks whose chunk was not resident at, or was
                  \* evicted after, their last write
    sigch,        \* BlockRender.sigch: the wake-ups buffered for UpdateLoop
    panicked,     \* log.Panic was reached: the process is gone
    players,      \* PlayerRender.players: the ids of the other players shown
    frame,        \* where Game.Update is: "idle" between frames, "draw" before the draw loop
    callQueue,    \* the functions handed to mainthread.CallNonBlock and not yet run
    gpu,          \* history: the NewMesh and Release calls, the task and the thread of each
    garbage,      \* history: the meshes no variable holds any more and nothing released
    waited,       \* history: the remote calls the render thread has waited for
    view,         \* the frustum planes of the frame and the chunk last tested against them
    pushed        \* history: the server push just handled, and whether it repeats
                  \* the operation before it

vars == <<chunks, accessLog, blockBucket, chunkBucket, dbOpen, opens, written, tall,
          client, camera, renderRadius, meshcache, pass, forced, calls, unloaded,
          sigch, panicked, players, frame, callQueue, gpu, garbage, waited, view,
          pushed>>

storeVars == <<blockBucket, chunkBucket, dbOpen, opens, written>>
worldVars == <<chunks, accessLog, tall, client, calls, unloaded, pushed>>
meshVars  == <<camera, renderRadius, meshcache, pass, forced, sigch>>
threadVars == <<panicked, players, frame, callQueue, gpu, garbage, waited, view>>

(***************************************************************************)
(* Vec3 and chunk coordinates.                                             *)
(***************************************************************************)
ChunkWidth == 32

Vec3(x, y, z) == [X |-> x, Y |-> y, Z |-> z]

\* a mutant: integer division that truncates towards zero
FloorDiv_trunc(a, w) == IF a >= 0 THEN a \div w ELSE -((-a) \div w)

\* math.Floor(float64(a) / ChunkWidth) for an int a
FloorDiv(a, w) == IF a >= 0 THEN a \div w ELSE -(((-a) + (w - 1)) \div w)

Chunkid(v) == Vec3(FloorDiv(v.X, ChunkWidth), 0, FloorDiv(v.Z, ChunkWidth))

Nil == [nil |-> TRUE]

(***************************************************************************)
(* Bounds of the model.                                                    *)
(***************************************************************************)
\* block types written by edits are 0 (removal) .. MaxType
MaxType == 2
\* the database file is opened at most MaxOpens times
MaxOpens == 2
\* a FetchChunk response carries at most MaxDeltas blocks
MaxDeltas == 2

Types == 0..MaxType

(***************************************************************************)
(* Durable cache: bolt keeps keys in bytewise lexicographic order.         *)
(***************************************************************************)
\* byte i (0 = least significant) of the two's complement int32 of x
Byte(x, i) ==
    LET p == IF i = 0 THEN 1 ELSE IF i = 1 THEN 256 ELSE IF i = 2 THEN 65536 ELSE 16777216
    IN IF x >= 0 THEN (x \div p) % 256 ELSE 255 - ((((-x) - 1) \div p) % 256)

\* binary.Write(buf, binary.LittleEndian, int32(x))
LE32(x) == <<Byte(x, 0), Byte(x, 1), Byte(x, 2), Byte(x, 3)>>

\* binary.Read(buf, binary.LittleEndian, &int32)
Int32Of(b) ==
    IF b[4] < 128
    THEN b[1] + 256 * b[2] + 65536 * b[3] + 16777216 * b[4]
    ELSE -((255 - b[1]) + 256 * (255 - b[2]) + 65536 * (255 - b[3])
           + 16777216 * (255 - b[4])) - 1

\* a mutant: the block's Y is not written to the key
encodeBlockDbKey_noY(cid, bid) ==
    LE32(cid.X) \o LE32(cid.Z) \o LE32(bid.X) \o LE32(0) \o LE32(bid.Z)

encodeBlockDbKey(cid, bid) ==
    LE32(cid.X) \o LE32(cid.Z) \o LE32(bid.X) \o LE32(bid.Y) \o LE32(bid.Z)

\* returns the pair and whether the key passes the "bad db key" check
decodeBlockDbKey(b) ==
    LET cid == Vec3(Int32Of(SubSeq(b, 1, 4)), 0, Int32Of(SubSeq(b, 5, 8)))
        bid == Vec3(Int32Of(SubSeq(b, 9, 12)), Int32Of(SubSeq(b, 13, 16)),
                    Int32Of(SubSeq(b, 17, 20)))
    IN [cid |-> cid, bid |-> bid, ok |-> Len(b) = 20 /\ Chunkid(bid) = cid]

\* binary.LittleEndian.PutUint32(value, uint32(w))
encodeBlockDbValue(w) == LE32(w)

\* int(binary.LittleEndian.Uint32(b)): unsigned, so no sign is restored
decodeBlockDbValue(b) == b[1] + 256 * b[2] + 65536 * b[3] + 16777216 * b[4]

\* bytes.Compare(a, b) < 0
RECURSIVE BytesLess(_, _)
BytesLess(a, b) ==
    IF a = <<>> THEN b # <<>>
    ELSE IF b = <<>> THEN FALSE
    ELSE IF Head(a) # Head(b) THEN Head(a) < Head(b)
    ELSE BytesLess(Tail(a), Tail(b))

\* Cursor.Seek: the first key >= k, Cursor.Next: the first key > k; Nil at the end
CursorSeek(bkt, k) ==
    LET S == {j \in DOMAIN bkt : ~BytesLess(j, k)}
    IN IF S = {} THEN Nil ELSE CHOOSE j \in S : \A i \in S : ~BytesLess(i, j)

CursorNext(bkt, k) ==
    LET S == {j \in DOMAIN bkt : BytesLess(k, j)}
    IN IF S = {} THEN Nil ELSE CHOOSE j \in S : \A i \in S : ~BytesLess(i, j)

\* the loop of Store.RangeBlocks from cursor position k: the (bid, w) pairs
\* handed to f, in order
RECURSIVE RangeLoop(_, _, _)
RangeLoop(bkt, id, k) ==
    IF k = Nil THEN <<>>
    ELSE LET d == decodeBlockDbKey(k)
         IN IF d.cid # id THEN <<>>
            ELSE <<[bid |-> d.bid, w |-> decodeBlockDbValue(bkt[k])]>>
                 \o RangeLoop(bkt, id, CursorNext(bkt, k))

\* Store.RangeBlocks(id, f)
RangeBlocks(bkt, id) ==
    RangeLoop(bkt, id, CursorSeek(bkt, encodeBlockDbKey(id, Vec3(0, 0, 0))))

\* bkt.Put(key, value) of Store.UpdateBlock
BucketPut(bkt, id, w) ==
    LET key == encodeBlockDbKey(Chunkid(id), id)
    IN [k \in DOMAIN bkt \cup {key} |->
            IF k = key THEN encodeBlockDbValue(w) ELSE bkt[k]]

WrittenPut(wr, id, w) == [b \in DOMAIN wr \cup {id} |-> IF b = id THEN w ELSE wr[b]]

EmptyMap == [x \in {} |-> 0]

\* encodeVec3(v), the key of the bucket "chunk"
encodeVec3(v) == LE32(v.X) \o LE32(v.Y) \o LE32(v.Z)

\* Store.GetChunkVersion(id): "" when no stamp is stored
GetChunkVersion(cb, id) ==
    IF encodeVec3(id) \in DOMAIN cb THEN cb[encodeVec3(id)] ELSE ""

\* bkt.Put(key, []byte(version)) of Store.UpdateChunkVersion
VersionPut(cb, id, version) ==
    [k \in DOMAIN cb \cup {encodeVec3(id)} |->
        IF k = encodeVec3(id) THEN version ELSE cb[k]]

(***************************************************************************)
(* Chunk: a block map owned by one chunk coordinate.                       *)
(***************************************************************************)
NewChunk(id) == [id |-> id, blocks |-> EmptyMap]

\* Chunk.Block(id)
ChunkBlock(ch, id) == IF id \in DOMAIN ch.blocks THEN ch.blocks[id] ELSE 0

\* the test Chunk.Block, Chunk.add and Chunk.del start with: log.Panicf for a
\* block of another chunk
ChunkPanics(ch, id) == Chunkid(id) # ch.id

\* a mutant: the block is stored whatever its chunk
add_unchecked(ch, id, w) ==
    [ch EXCEPT !.blocks = [b \in DOMAIN ch.blocks \cup {id} |->
                              IF b = id THEN w ELSE ch.blocks[b]]]

\* Chunk.add(id, w): c.blocks.Store(id, w), unless it panics first
add(ch, id, w) ==
    IF ChunkPanics(ch, id) THEN ch
    ELSE [ch EXCEPT !.blocks = [b \in DOMAIN ch.blocks \cup {id} |->
                                   IF b = id THEN w ELSE ch.blocks[b]]]

\* Chunk.del(id): c.blocks.Delete(id), unless it panics first
del(ch, id) ==
    IF ChunkPanics(ch, id) THEN ch
    ELSE [ch EXCEPT !.blocks = [b \in DOMAIN ch.blocks \ {id} |-> ch.blocks[b]]]

(***************************************************************************)
(* World: the LRU chunk store.                                             *)
(***************************************************************************)
\* NewWorld: lru.New(renderRadius * renderRadius * 4)
Capacity == renderRadius * renderRadius * 4

Keys(c) == {c[i].key : i \in 1..Len(c)}
IndexOf(c, id) == CHOOSE i \in 1..Len(c) : c[i].key = id
Without(c, i) == SubSeq(c, 1, i - 1) \o SubSeq(c, i + 1, Len(c))

\* a mutant: the lookup does not count as a use (lru Peek instead of Get)
loadChunk_peek(c, id) ==
    IF id \in Keys(c)
    THEN [ok |-> TRUE, chunk |-> c[IndexOf(c, id)].value, cache |-> c]
    ELSE [ok |-> FALSE, chunk |-> Nil, cache |-> c]

\* World.loadChunk(id): lru Get moves a hit to the front
loadChunk(c, id) ==
    IF id \in Keys(c)
    THEN LET i == IndexOf(c, id)
         IN [ok |-> TRUE, chunk |-> c[i].value, cache |-> <<c[i]>> \o Without(c, i)]
    ELSE [ok |-> FALSE, chunk |-> Nil, cache |-> c]

\* a mutant: Add pushes a new entry without looking for the key
storeChunk_append(c, id, chunk) ==
    LET e == [key |-> id, value |-> chunk]
    IN IF Len(c) + 1 > Capacity THEN <<e>> \o SubSeq(c, 1, Len(c) - 1) ELSE <<e>> \o c

\* World.storeChunk(id, chunk): lru Add replaces a present key and moves it to
\* the front, else pushes to the front and drops the oldest entry when over size
storeChunk(c, id, chunk) ==
    LET e == [key |-> id, value |-> chunk]
    IN IF id \in Keys(c) THEN <<e>> \o Without(c, IndexOf(c, id))
       ELSE IF Len(c) + 1 > Capacity THEN <<e>> \o SubSeq(c, 1, Len(c) - 1)
       ELSE <<e>> \o c

\* World.BlockChunk(block)
BlockChunk(c, block) == loadChunk(c, Chunkid(block))

\* a mutant: a miss materializes an empty chunk instead of answering -1
WorldBlock_load(c, id) ==
    LET r == BlockChunk(c, id)
    IN IF ~r.ok
       THEN [ret |-> 0, cache |-> storeChunk(c, Chunkid(id), NewChunk(Chunkid(id)))]
       ELSE [ret |-> ChunkBlock(r.chunk, id), cache |-> r.cache]

\* World.Block(id): what it returns and the LRU list it leaves
WorldBlock(c, id) ==
    LET r == BlockChunk(c, id)
    IN IF ~r.ok THEN [ret |-> -1, cache |-> r.cache]
       ELSE [ret |-> ChunkBlock(r.chunk, id), cache |-> r.cache]

\* a mutant: the edit is written to the store only, not to the resident chunk
UpdateBlockChunks_storeOnly(c, id, tp) == BlockChunk(c, id).cache

\* a mutant: placing the type a block already has removes the block
UpdateBlockChunks_toggle(c, id, tp) ==
    LET r == BlockChunk(c, id)
    IN IF ~r.ok THEN r.cache
       ELSE <<[key |-> r.cache[1].key,
               value |-> IF tp # 0 /\ ChunkBlock(r.chunk, id) # tp
                         THEN add(r.chunk, id, tp) ELSE del(r.chunk, id)]>>
            \o Tail(r.cache)

\* a mutant: a removal is stored as type 0 instead of deleting the key
UpdateBlockChunks_air(c, id, tp) ==
    LET r == BlockChunk(c, id)
    IN IF ~r.ok THEN r.cache
       ELSE <<[key |-> r.cache[1].key, value |-> add(r.chunk, id, tp)]>> \o Tail(r.cache)

\* World.UpdateBlock(id, tp), the chunk store after it: the resident chunk (now
\* at the front of the LRU list) is edited in place
UpdateBlockChunks(c, id, tp) ==
    LET r == BlockChunk(c, id)
    IN IF ~r.ok THEN r.cache
       ELSE <<[key |-> r.cache[1].key,
               value |-> IF tp # 0 THEN add(r.chunk, id, tp) ELSE del(r.chunk, id)]>>
            \o Tail(r.cache)

\* a mutant: a removal is not written to the durable cache
UpdateBlockBucket_noRemoval(bkt, open, id, tp) ==
    IF open /\ tp # 0 THEN BucketPut(bkt, id, tp) ELSE bkt

\* World.UpdateBlock(id, tp), the bucket "block" after store.UpdateBlock(id, tp)
UpdateBlockBucket(bkt, open, id, tp) == IF open THEN BucketPut(bkt, id, tp) ELSE bkt

(***************************************************************************)
(* The generator, over the blocks the model follows.  The noise functions  *)
(* are not computed: tall is the set of columns with int(f*mh) = 13, every *)
(* other column has h <= 12; no flower, tree or cloud threshold is met.    *)
(***************************************************************************)
grassBlock == 1
sandBlock == 2

\* the blocks followed in the chunk-store specifications
Blocks == {Vec3(0, 0, 0), Vec3(0, 12, 0), Vec3(-1, 12, -1)}

Column(b) == <<b.X, b.Z>>
Columns == {Column(b) : b \in Blocks}

\* a mutant: the generator looks the durable overrides up
makeChunkMap_stored(cid, t) ==
    LET S == {b \in Blocks : Chunkid(b) = cid /\ (b.Y < 12 \/ b \in DOMAIN written)}
    IN [b \in S |-> sandBlock]

\* makeChunkMap(cid), restricted to Blocks
makeChunkMap(cid, t) ==
    LET h(col) == IF col \in t THEN 13 ELSE 12
        S == {b \in Blocks : Chunkid(b) = cid /\ 0 <= b.Y /\ b.Y < h(Column(b))}
    IN [b \in S |-> IF Column(b) \in t THEN grassBlock ELSE sandBlock]

\* the callback of World.Chunk applied to a list of (bid, w): 0 deletes
RECURSIVE Overlay(_, _)
Overlay(ch, seq) ==
    IF seq = <<>> THEN ch
    ELSE Overlay(IF Head(seq).w = 0 THEN del(ch, Head(seq).bid)
                 ELSE add(ch, Head(seq).bid, Head(seq).w), Tail(seq))

\* the store.UpdateBlock calls of World.Chunk's remote callback: w # 0 only
RECURSIVE RemotePut(_, _)
RemotePut(bkt, seq) ==
    IF seq = <<>> THEN bkt
    ELSE RemotePut(IF Head(seq).w = 0 THEN bkt
                   ELSE BucketPut(bkt, Head(seq).bid, Head(seq).w), Tail(seq))

RECURSIVE RemoteWritten(_, _)
RemoteWritten(wr, seq) ==
    IF seq = <<>> THEN wr
    ELSE RemoteWritten(IF Head(seq).w = 0 THEN wr
                       ELSE WrittenPut(wr, Head(seq).bid, Head(seq).w), Tail(seq))

\* ClientFetchChunk(id, f): the rep.Blocks handed to f; none when there is no
\* client or the call returns rpc.ErrShutdown
FetchedBlocks(cl, rep) == IF cl = "up" THEN rep.Blocks ELSE <<>>

\* a mutant: the durable overrides are applied over the remote deltas
Materialize_swapped(id, t, bkt, cl, rep) ==
    Overlay(Overlay([NewChunk(id) EXCEPT !.blocks = makeChunkMap(id, t)],
                    FetchedBlocks(cl, rep)),
            RangeBlocks(bkt, id))

\* World.Chunk(id) on a miss, the chunk it builds: generator, then the durable
\* overrides, then the remote's deltas
Materialize(id, t, bkt, cl, rep) ==
    LET gen == makeChunkMap(id, t)
        base == [NewChunk(id) EXCEPT !.blocks = gen]
    IN Overlay(Overlay(base, RangeBlocks(bkt, id)), FetchedBlocks(cl, rep))

(***************************************************************************)
(* The durable cache on its own: writes, Close, and reopening the file.    *)
(***************************************************************************)
\* the blocks written in this specification: two in chunk (0,0), one with
\* negative coordinates, and chunks 1 and 256 whose keys sort against their
\* numeric order
StoreBlocks ==
    {Vec3(0, 0, 0), Vec3(0, 12, 0), Vec3(-1, 12, -1), Vec3(32, 0, 0), Vec3(8192, 0, 0)}

StoreChunkIds == {Chunkid(b) : b \in StoreBlocks} \cup {Vec3(-1, 0, 0)}

\* Store.UpdateBlock(id, w): an Update on a closed database returns an error
StoreUpdateBlock(id, w) ==
    /\ blockBucket' = IF dbOpen THEN BucketPut(blockBucket, id, w) ELSE blockBucket
    /\ written' = IF dbOpen THEN WrittenPut(written, id, w) ELSE written
    /\ UNCHANGED <<chunkBucket, dbOpen, opens>>

\* Store.Close()
StoreClose ==
    /\ dbOpen
    /\ dbOpen' = FALSE
    /\ UNCHANGED <<blockBucket, chunkBucket, opens, written>>

\* NewStore(path) on the existing file: the buckets are created only if missing
NewStore ==
    /\ ~dbOpen
    /\ opens < MaxOpens
    /\ dbOpen' = TRUE
    /\ opens' = opens + 1
    /\ UNCHANGED <<blockBucket, chunkBucket, written>>

InitStoreVars ==
    /\ blockBucket = EmptyMap
    /\ chunkBucket = EmptyMap
    /\ dbOpen = TRUE
    /\ opens = 1
    /\ written = EmptyMap

InitWorldIdle ==
    /\ chunks = <<>>
    /\ accessLog = <<>>
    /\ tall = {}
    /\ client = "nil"
    /\ calls = EmptyMap
    /\ unloaded = {}
    /\ pushed = Nil

\* no frame drawn yet
NoView == [planes |-> <<>>, shown |-> Nil]

\* the process runs
InitThreadsIdle ==
    /\ panicked = FALSE
    /\ players = {}
    /\ frame = "idle"
    /\ callQueue = <<>>
    /\ gpu = {}
    /\ garbage = {}
    /\ waited = {}
    /\ view = NoView

\* UpdateLoop before its first pass
NoPass == [pc |-> "idle", center |-> Vec3(0, 0, 0), needed |-> {},
           added |-> {}, removed |-> {}]

InitMeshIdle ==
    /\ camera = Vec3(0, 0, 0)
    /\ renderRadius = 1
    /\ meshcache = EmptyMap
    /\ pass = NoPass
    /\ forced = {}
    /\ sigch = 0
    /\ InitThreadsIdle

InitStoreSpec == InitStoreVars /\ InitWorldIdle /\ InitMeshIdle

NextStore ==
    \/ \E id \in StoreBlocks, w \in Types :
          StoreUpdateBlock(id, w) /\ UNCHANGED <<worldVars, threadVars, meshVars>>
    \/ StoreClose /\ UNCHANGED <<worldVars, threadVars, meshVars>>
    \/ NewStore /\ UNCHANGED <<worldVars, threadVars, meshVars>>

SpecStore == InitStoreSpec /\ [][NextStore]_vars

\* the (bid, w) pairs RangeBlocks visits for chunk c
Visited(c) ==
    LET seq == RangeBlocks(blockBucket, c)
    IN {<<seq[i].bid, seq[i].w>> : i \in 1..Len(seq)}

\* C7: whenever the database is open (after any writes, and after Close and
\* reopening), RangeBlocks(c) visits exactly the blocks of c ever written, each
\* once and with its last written value, and no block of another chunk.
ThmC7 ==
    dbOpen =>
        \A c \in StoreChunkIds :
            LET seq == RangeBlocks(blockBucket, c)
            IN /\ \A i, j \in 1..Len(seq) : seq[i].bid = seq[j].bid => i = j
               /\ Visited(c) = {<<b, written[b]>> : b \in {d \in DOMAIN written : Chunkid(d) = c}}

\* a reopened database holding both blocks of chunk (0,0), one of them
\* overwritten with 0, and the block with negative coordinates
WitC7 ==
    /\ dbOpen /\ opens = 2
    /\ Visited(Vec3(0, 0, 0)) = {<<Vec3(0, 0, 0), 0>>, <<Vec3(0, 12, 0), 2>>}
    /\ Visited(Vec3(-1, 0, -1)) = {<<Vec3(-1, 12, -1), 1>>}
    /\ Visited(Vec3(256, 0, 0)) = {<<Vec3(8192, 0, 0), 1>>}

(***************************************************************************)
(* The mesh cache's dirty flags, as set by edits.                          *)
(***************************************************************************)
\* BlockRender.DirtyChunk(id)
DirtyChunk(mc, id) == IF id \in DOMAIN mc THEN [mc EXCEPT ![id].Dirty = TRUE] ELSE mc

\* Game.dirtyBlock(id): the block's chunk and the chunks of its four
\* horizontal neighbours
dirtyBlock(mc, id) ==
    LET cid == Chunkid(id)
        l == Chunkid(Vec3(id.X - 1, id.Y, id.Z))
        r == Chunkid(Vec3(id.X + 1, id.Y, id.Z))
        f == Chunkid(Vec3(id.X, id.Y, id.Z + 1))
        b == Chunkid(Vec3(id.X, id.Y, id.Z - 1))
    IN DirtyChunk(DirtyChunk(DirtyChunk(DirtyChunk(DirtyChunk(mc, cid), l), r), f), b)

(***************************************************************************)
(* The operations on the chunk store, each a whole call.                   *)
(***************************************************************************)
\* latest access first
Touch(log, id) == <<id>> \o SelectSeq(log, LAMBDA x : x # id)

\* the written blocks of the chunks that leave the store in this step
Evicted == {b \in DOMAIN written : Chunkid(b) \in Keys(chunks) \ Keys(chunks')}

\* World.Chunk(id), the remote answering rep when it is asked
ChunkCall(id, rep) ==
    LET r == loadChunk(chunks, id)
        fetched == FetchedBlocks(client, rep)
    IN IF r.ok
       THEN /\ chunks' = r.cache
            /\ accessLog' = Touch(accessLog, id)
            /\ UNCHANGED <<blockBucket, chunkBucket, written, unloaded>>
       ELSE IF ~dbOpen
       THEN UNCHANGED <<chunks, accessLog, blockBucket, chunkBucket, written, unloaded>>
       ELSE /\ chunks' = storeChunk(chunks, id,
                             Materialize(id, tall, blockBucket, client, rep))
            /\ accessLog' = Touch(accessLog, id)
            /\ blockBucket' = RemotePut(blockBucket, fetched)
            /\ written' = RemoteWritten(written, fetched)
            /\ chunkBucket' =
                   IF client = "up" /\ GetChunkVersion(chunkBucket, id) # rep.Version
                   THEN VersionPut(chunkBucket, id, rep.Version)
                   ELSE chunkBucket
            /\ unloaded' = unloaded \cup Evicted

\* World.UpdateBlock(id, tp) with its history
UpdateBlock(id, tp) ==
    /\ chunks' = UpdateBlockChunks(chunks, id, tp)
    /\ blockBucket' = UpdateBlockBucket(blockBucket, dbOpen, id, tp)
    /\ written' = IF dbOpen THEN WrittenPut(written, id, tp) ELSE written
    /\ accessLog' = IF Chunkid(id) \in Keys(chunks)
                    THEN Touch(accessLog, Chunkid(id)) ELSE accessLog
    /\ unloaded' = IF Chunkid(id) \in Keys(chunks)
                   THEN unloaded \ {id} ELSE unloaded \cup {id}

\* Game.onMouseButtonCallback up to the hand-off of ClientUpdateBlock: the left
\* button removes the block HitTest found (HasBlock), the right button places
\* the held item in the cell before it (not HasBlock)
EditBlock(id, tp) ==
    /\ IF tp = 0 THEN WorldBlock(chunks, id).ret \notin {-1, 0}
                 ELSE WorldBlock(chunks, id).ret \in {-1, 0}
    /\ UpdateBlock(id, tp)
    /\ meshcache' = dirtyBlock(meshcache, id)
    /\ pushed' = Nil
    /\ UNCHANGED <<chunkBucket, dbOpen, opens, tall, threadVars, client, calls,
                   camera, renderRadius, pass, forced, sigch>>

\* BlockService.UpdateBlock(req): an edit pushed by the server
PushUpdateBlock(id, w) ==
    /\ client = "up"
    /\ UpdateBlock(id, w)
    /\ meshcache' = DirtyChunk(meshcache, Chunkid(id))
    /\ pushed' = [id |-> id, w |-> w,
                  twice |-> pushed # Nil /\ pushed.id = id /\ pushed.w = w]
    /\ UNCHANGED <<chunkBucket, dbOpen, opens, tall, threadVars, client, calls,
                   camera, renderRadius, pass, forced, sigch>>

\* World.Block(id), as called by Collide, HitTest and the mesh builder
BlockRead(id) ==
    /\ chunks' = WorldBlock(chunks, id).cache
    /\ accessLog' = IF Chunkid(id) \in Keys(chunks)
                    THEN Touch(accessLog, Chunkid(id)) ELSE accessLog
    /\ pushed' = Nil
    /\ UNCHANGED <<storeVars, tall, threadVars, client, calls, unloaded, meshVars>>

\* the connection is lost: from now on client.Call returns rpc.ErrShutdown
Disconnect ==
    /\ client = "up"
    /\ client' = "shutdown"
    /\ pushed' = Nil
    /\ UNCHANGED <<storeVars, chunks, accessLog, tall, threadVars, calls, unloaded, meshVars>>

(***************************************************************************)
(* The chunk store without a server: five chunk coordinates against the    *)
(* capacity 4 of render radius 1.                                          *)
(***************************************************************************)
ChunkIds == {Vec3(0, 0, 0), Vec3(-1, 0, -1), Vec3(1, 0, 0), Vec3(0, 0, 1), Vec3(-1, 0, 0)}

\* the blocks edited and read in this specification, in two chunks
WorldBlocks == {Vec3(0, 12, 0), Vec3(-1, 12, -1)}

NoRep == [Blocks |-> <<>>, Version |-> ""]

InitWorld ==
    /\ InitStoreVars
    /\ chunks = <<>>
    /\ accessLog = <<>>
    /\ tall \in {{}, {<<0, 0>>}}
    /\ client = "nil"
    /\ calls = EmptyMap
    /\ unloaded = {}
    /\ pushed = Nil
    /\ camera = Vec3(0, 0, 0)
    /\ renderRadius = 1
    /\ meshcache = EmptyMap
    /\ pass = NoPass
    /\ forced = {}
    /\ sigch = 0
    /\ InitThreadsIdle

NextWorld ==
    \/ \E id \in ChunkIds :
          ChunkCall(id, NoRep) /\ pushed' = Nil
             /\ UNCHANGED <<dbOpen, opens, tall, threadVars, client, calls, meshVars>>
    \/ \E id \in WorldBlocks, tp \in Types : EditBlock(id, tp)
    \/ \E id \in WorldBlocks : BlockRead(id)

SpecWorld == InitWorld /\ [][NextWorld]_vars

\* the chunk stored for coordinate id
ChunkAt(c, id) == c[IndexOf(c, id)].value

\* what the generator alone gives for block b
Generated(b) ==
    LET m == makeChunkMap(Chunkid(b), tall) IN IF b \in DOMAIN m THEN m[b] ELSE 0

\* C1 as stated: for every block b and type T, World.Block(b) right after
\* World.UpdateBlock(b, T) returns T.
CexC1 ==
    \A b \in WorldBlocks, T \in Types :
        WorldBlock(UpdateBlockChunks(chunks, b, T), b).ret = T

\* C1 as amended: World.Block(b) right after World.UpdateBlock(b, T) returns T
\* when b's chunk is resident in the chunk store, and -1 when it is not.
ThmC1 ==
    \A b \in WorldBlocks, T \in Types :
        WorldBlock(UpdateBlockChunks(chunks, b, T), b).ret =
            IF Chunkid(b) \in Keys(chunks) THEN T ELSE -1

\* an edit has changed a block of a chunk that stayed resident since, and
\* World.Block returns the edited value
WitC1 ==
    \E b \in DOMAIN written :
        /\ b \notin unloaded
        /\ Chunkid(b) \in Keys(chunks)
        /\ written[b] # Generated(b)
        /\ WorldBlock(chunks, b).ret = written[b]

\* the resident coordinate whose last access is the oldest
LeastRecent ==
    LET r == SelectSeq(accessLog, LAMBDA x : x \in Keys(chunks)) IN r[Len(r)]

\* C5: when the store holds Capacity chunks, a step that stores a chunk for a
\* coordinate not in the store evicts exactly one entry, the one whose last
\* access (loadChunk hit or storeChunk) is the oldest.
ThmC5 ==
    [][\A id \in ChunkIds :
          (Len(chunks) = Capacity /\ id \notin Keys(chunks) /\ id \in Keys(chunks'))
              => Keys(chunks') = (Keys(chunks) \ {LeastRecent}) \cup {id}]_vars

\* the store is full and a chunk has been evicted from it
WitC5 ==
    /\ Len(chunks) = Capacity
    /\ \E i \in 1..Len(accessLog) : accessLog[i] \notin Keys(chunks)

\* C8: with no remote configured, every written block of a resident chunk reads
\* as the last value written for it, whatever evictions and re-materializations
\* happened since the write.
ThmC8 ==
    client = "nil" =>
        \A b \in DOMAIN written :
            Chunkid(b) \in Keys(chunks) => ChunkBlock(ChunkAt(chunks, Chunkid(b)), b) = written[b]

\* a block whose chunk was absent at its last write, or evicted after it, is
\* resident again and reads as written, unlike what the generator gives
WitC8 ==
    \E b \in unloaded :
        /\ Chunkid(b) \in Keys(chunks)
        /\ written[b] # Generated(b)
        /\ WorldBlock(chunks, b).ret = written[b]

\* C10: World.Block(b) returns -1 exactly when b's chunk is not resident and 0
\* for an absent block of a resident chunk, and leaves the set of resident
\* chunks as it was.
ThmC10 ==
    \A b \in WorldBlocks :
        LET r == WorldBlock(chunks, b)
        IN /\ (r.ret = -1) <=> (Chunkid(b) \notin Keys(chunks))
           /\ (Chunkid(b) \in Keys(chunks)
                 /\ b \notin DOMAIN ChunkAt(chunks, Chunkid(b)).blocks) => r.ret = 0
           /\ Keys(r.cache) = Keys(chunks)
           /\ Len(r.cache) = Len(chunks)

\* one followed chunk is resident with its block absent, the other chunk is not
\* resident although it was stored before
WitC10 ==
    /\ Vec3(0, 0, 0) \in Keys(chunks)
    /\ WorldBlock(chunks, Vec3(0, 12, 0)).ret = 0
    /\ Vec3(-1, 0, -1) \notin Keys(chunks)
    /\ WorldBlock(chunks, Vec3(-1, 12, -1)).ret = -1
    /\ \E i \in 1..Len(accessLog) : accessLog[i] = Vec3(-1, 0, -1)

(***************************************************************************)
(* The chunk store with a server: FetchChunk responses and pushed edits.   *)
(***************************************************************************)
RemoteChunkIds == {Vec3(0, 0, 0), Vec3(-1, 0, -1)}

Versions == {"v1"}

\* the blocks edited, pushed and fetched in this specification
RemoteBlocks == {Vec3(0, 0, 0), Vec3(0, 12, 0)}

\* the blocks the server holds changes of
DeltaBlocks == {Vec3(0, 12, 0)}

\* the [x, y, z, w] entries a response for chunk id can hold
Deltas(id) == [bid : {b \in DeltaBlocks : Chunkid(b) = id}, w : Types]

\* the FetchChunkResponse values of the server for chunk id
Responses(id) ==
    [Blocks : UNION {[1..n -> Deltas(id)] : n \in 0..MaxDeltas}, Version : Versions]

InitRemote ==
    /\ InitStoreVars
    /\ chunks = <<>>
    /\ accessLog = <<>>
    /\ tall \in {{}, {<<0, 0>>}}
    /\ client = "up"
    /\ calls = EmptyMap
    /\ unloaded = {}
    /\ pushed = Nil
    /\ camera = Vec3(0, 0, 0)
    /\ renderRadius = 1
    /\ meshcache = EmptyMap
    /\ pass = NoPass
    /\ forced = {}
    /\ sigch = 0
    /\ InitThreadsIdle

NextRemote ==
    \/ \E id \in RemoteChunkIds :
          \E rep \in IF client = "up" /\ id \notin Keys(chunks)
                     THEN Responses(id) ELSE {NoRep} :
             ChunkCall(id, rep) /\ pushed' = Nil
                /\ UNCHANGED <<dbOpen, opens, tall, threadVars, client, calls, meshVars>>
    \/ \E id \in RemoteBlocks, w \in Types : PushUpdateBlock(id, w)
    \/ \E id \in RemoteBlocks, tp \in Types : EditBlock(id, tp)
    \/ Disconnect

SpecRemote == InitRemote /\ [][NextRemote]_vars

\* the blocks of chunk id as the three layers give them: the remote's last
\* delta for a block, else its durable override, else the generator; 0 is absent
Layered(id, rep) ==
    LET fetched == IF client = "up" THEN rep.Blocks ELSE <<>>
        hits(b) == {i \in 1..Len(fetched) : fetched[i].bid = b}
        v(b) == IF hits(b) # {}
                THEN fetched[CHOOSE i \in hits(b) : \A j \in hits(b) : j <= i].w
                ELSE IF b \in DOMAIN written THEN written[b] ELSE Generated(b)
        S == {b \in Blocks : Chunkid(b) = id /\ v(b) # 0}
    IN [b \in S |-> v(b)]

\* C9: on a miss, whatever the remote answers, the chunk World.Chunk builds is
\* the generator's map overlaid by the durable overrides overlaid by the remote's
\* deltas, a value 0 removing the block; without a usable remote it is the
\* generator overlaid by the durable overrides.
ThmC9 ==
    \A id \in RemoteChunkIds :
        (id \notin Keys(chunks) /\ dbOpen) =>
            \A rep \in IF client = "up" THEN Responses(id) ELSE {NoRep} :
                Materialize(id, tall, blockBucket, client, rep).blocks = Layered(id, rep)

\* chunk (0,0) was materialized with the remote up: a block with a non-zero
\* durable override is absent (removed by a delta), another reads as its
\* override, not as generated
WitC9 ==
    /\ Vec3(0, 0, 0) \in Keys(chunks)
    /\ Vec3(0, 12, 0) \in DOMAIN written /\ written[Vec3(0, 12, 0)] # 0
    /\ Vec3(0, 12, 0) \notin DOMAIN ChunkAt(chunks, Vec3(0, 0, 0)).blocks
    /\ Vec3(0, 0, 0) \in DOMAIN written /\ written[Vec3(0, 0, 0)] # Generated(Vec3(0, 0, 0))
    /\ WorldBlock(chunks, Vec3(0, 0, 0)).ret = written[Vec3(0, 0, 0)]

\* the chunk store and the bucket after handling the push (b, w) once more
PushAgain(b, w) ==
    [chunks |-> UpdateBlockChunks(chunks, b, w),
     blockBucket |-> UpdateBlockBucket(blockBucket, dbOpen, b, w)]

\* C2 as stated: a push handled twice in a row leaves the chunk contents and
\* the durable cache as after the first, and World.Block then returns w.
CexC2 ==
    (pushed # Nil /\ pushed.twice) =>
        /\ PushAgain(pushed.id, pushed.w).chunks = chunks
        /\ PushAgain(pushed.id, pushed.w).blockBucket = blockBucket
        /\ WorldBlock(chunks, pushed.id).ret = pushed.w

\* C2 as amended: a push handled twice in a row (and any further time) leaves
\* the chunk contents and the durable cache as after the first; World.Block
\* then returns w if the block's chunk is resident and -1 if it is not.
ThmC2 ==
    pushed # Nil =>
        /\ PushAgain(pushed.id, pushed.w).chunks = chunks
        /\ PushAgain(pushed.id, pushed.w).blockBucket = blockBucket
        /\ WorldBlock(chunks, pushed.id).ret =
              IF Chunkid(pushed.id) \in Keys(chunks) THEN pushed.w ELSE -1

\* the same push was handled twice in a row on a resident chunk and changed
\* what the generator and the durable cache gave before
WitC2 ==
    /\ pushed # Nil /\ pushed.twice
    /\ Chunkid(pushed.id) \in Keys(chunks)
    /\ pushed.w # Generated(pushed.id)
    /\ WorldBlock(chunks, pushed.id).ret = pushed.w

(***************************************************************************)
(* The mesh cache: the render thread forces the viewer's 3x3 chunks every  *)
(* frame and wakes UpdateLoop, whose pass runs in the background in three  *)
(* steps (scan, delete, build).  World.Chunks joins its goroutines before  *)
(* it returns; here they finish in the order of the slice.                 *)
(***************************************************************************)
batchBuildChunk == 4

\* cap(r.sigch)
sigchCap == 4

IsPlant(tp) == tp >= 17 /\ tp <= 31

IsTransparent(tp) == IsPlant(tp) \/ tp \in {-1, 0, 10, 15}

IsObstacle(tp) ==
    IF IsPlant(tp) THEN FALSE
    ELSE IF tp = -1 THEN TRUE
    ELSE IF tp = 0 THEN FALSE
    ELSE TRUE

\* an order of coordinates, to walk a set
Before(a, b) == a.X < b.X \/ (a.X = b.X /\ (a.Z < b.Z \/ (a.Z = b.Z /\ a.Y < b.Y)))

RECURSIVE SeqOf(_)
SeqOf(S) ==
    IF S = {} THEN <<>>
    ELSE LET m == CHOOSE a \in S : \A b \in S \ {a} : Before(a, b)
         IN <<m>> \o SeqOf(S \ {m})

\* a mutant: when the read of the durable cache fails, the generated chunk is
\* stored and returned
ChunkLocal_kept(c, id) ==
    LET r == loadChunk(c, id)
        ch == IF dbOpen THEN Materialize(id, tall, blockBucket, client, NoRep)
              ELSE [NewChunk(id) EXCEPT !.blocks = makeChunkMap(id, tall)]
    IN IF r.ok THEN [cache |-> r.cache, chunk |-> r.chunk]
       ELSE [cache |-> storeChunk(c, id, ch), chunk |-> ch]

\* World.Chunk(id) without a server: the store after it and the chunk returned
ChunkLocal(c, id) ==
    LET r == loadChunk(c, id)
    IN IF r.ok THEN [cache |-> r.cache, chunk |-> r.chunk]
       ELSE IF ~dbOpen THEN [cache |-> c, chunk |-> Nil]
       ELSE LET ch == Materialize(id, tall, blockBucket, client, NoRep)
            IN [cache |-> storeChunk(c, id, ch), chunk |-> ch]

\* the loop of World.Chunks over the results: nil is dropped
RECURSIVE ChunksLoop(_, _)
ChunksLoop(st, ids) ==
    IF ids = <<>> THEN st
    ELSE LET h == ChunkLocal(st.cache, Head(ids))
         IN IF h.chunk = Nil THEN ChunksLoop(st, Tail(ids))
            ELSE ChunksLoop([cache |-> h.cache, chunks |-> Append(st.chunks, h.chunk)],
                            Tail(ids))

\* World.Chunks(ids)
Chunks(c, ids) == ChunksLoop([cache |-> c, chunks |-> <<>>], ids)

\* the World.Block calls makeChunkMesh makes for block b, in order: left,
\* right, up, down, front, back, and b itself for IsPlant
Lookups(b) ==
    <<Vec3(b.X - 1, b.Y, b.Z), Vec3(b.X + 1, b.Y, b.Z), Vec3(b.X, b.Y + 1, b.Z),
      Vec3(b.X, b.Y - 1, b.Z), Vec3(b.X, b.Y, b.Z + 1), Vec3(b.X, b.Y, b.Z - 1), b>>

\* a mutant: the bottom face is drawn at y = 0 too
Shown_floor(c, b, i) ==
    IF IsPlant(WorldBlock(c, b).ret) THEN i <= 4
    ELSE IsTransparent(WorldBlock(c, Lookups(b)[i]).ret)

\* face i of block b is appended: makePlantData draws four faces whatever show
\* says, makeCubeData the shown ones
Shown(c, b, i) ==
    IF IsPlant(WorldBlock(c, b).ret) THEN i <= 4
    ELSE IsTransparent(WorldBlock(c, Lookups(b)[i]).ret) /\ (i = 4 => b.Y # 0)

\* the faces makeChunkMesh appends for the blocks of chunk: (block, direction)
Faces(c, chunk) == {p \in (DOMAIN chunk.blocks) \X (1..6) : Shown(c, p[1], p[2])}

\* the chunk store after World.Block for each of bs in turn
RECURSIVE ReadAll(_, _)
ReadAll(c, bs) ==
    IF bs = <<>> THEN c
    ELSE LET r == WorldBlock(c, Head(bs))
         IN IF r.ret = -1 THEN ReadAll(c, Tail(bs)) ELSE ReadAll(r.cache, Tail(bs))

\* BlockRender.makeChunkMesh(c, _): the mesh, and the store after its lookups
makeChunkMesh(c, chunk) ==
    LET bs == SeqOf(DOMAIN chunk.blocks)
        reads == [j \in 1..(7 * Len(bs)) |->
                     Lookups(bs[((j - 1) \div 7) + 1])[((j - 1) % 7) + 1]]
    IN [cache |-> ReadAll(c, reads),
        mesh |-> [Id |-> chunk.id, Dirty |-> FALSE,
                  faces |-> Cardinality(Faces(c, chunk))]]

\* r.meshcache.Store(id, mesh)
MeshStore(mc, id, mesh) ==
    [k \in DOMAIN mc \cup {id} |-> IF k = id THEN mesh ELSE mc[k]]

\* the loop of forceChunks over the chunks: a clean cached mesh is kept
RECURSIVE ForceLoop(_, _)
ForceLoop(st, chs) ==
    IF chs = <<>> THEN st
    ELSE LET id == Head(chs).id
         IN IF id \in DOMAIN st.mc /\ ~st.mc[id].Dirty THEN ForceLoop(st, Tail(chs))
            ELSE LET m == makeChunkMesh(st.cache, Head(chs))
                 IN ForceLoop([cache |-> m.cache, mc |-> MeshStore(st.mc, id, m.mesh),
                               stored |-> st.stored \cup {id}], Tail(chs))

\* BlockRender.forceChunks(ids)
forceChunks(c, mc, ids) ==
    LET r == Chunks(c, ids)
    IN ForceLoop([cache |-> r.cache, mc |-> mc, stored |-> {}], r.chunks)

\* the ids of forcePlayerChunks around chunk cid, dx outer and dz inner
PlayerChunks(cid) ==
    [i \in 1..9 |-> Vec3(cid.X + ((i - 1) \div 3) - 1, 0, cid.Z + ((i - 1) % 3) - 1)]

\* the needed map of updateMeshCache: dx and dz run from -n while < n
Needed(cid, n) ==
    {Vec3(cid.X + d[1], 0, cid.Z + d[2]) :
        d \in {e \in (-n .. n - 1) \X (-n .. n - 1) : e[1] * e[1] + e[2] * e[2] <= n * n}}

\* a mutant: only dirty meshes are removed
Removed_dirtyOnly(mc, needed) == {id \in DOMAIN mc : id \in needed /\ mc[id].Dirty}

\* the removed list of updateMeshCache
Removed(mc, needed) ==
    {id \in DOMAIN mc : id \notin needed} \cup
    {id \in needed : id \in DOMAIN mc /\ mc[id].Dirty}

\* the added list of updateMeshCache
Added(mc, needed) == {id \in needed : id \notin DOMAIN mc \/ mc[id].Dirty}

\* the directions the camera looks in: every chunk in the frustum, or the
\* chunks from the viewer's eastwards
Frusta == {"all", "east"}

isChunkVisiable(planes, cid, id) == planes = "all" \/ id.X >= cid.X

Dist2(cid, id) == (id.X - cid.X) * (id.X - cid.X) + (id.Z - cid.Z) * (id.Z - cid.Z)

\* a mutant: chunks are ordered by distance alone
Less_distance(planes, cid, a, b) == Dist2(cid, a) < Dist2(cid, b)

\* the less function of sortChunks
Less(planes, cid, a, b) ==
    LET v1 == isChunkVisiable(planes, cid, a)
        v2 == isChunkVisiable(planes, cid, b)
    IN IF v1 /\ ~v2 THEN TRUE
       ELSE IF v2 /\ ~v1 THEN FALSE
       ELSE Dist2(cid, a) < Dist2(cid, b)

\* a mutant: added is sorted and not cut
Batches_uncut(S, planes, cid) == {S}

\* sortChunks(added) and the cut to batchBuildChunk: sort.Slice is not stable
\* and the list comes from a map range, so ties fall either way
Batches(S, planes, cid) ==
    IF Cardinality(S) <= 4 THEN {S}
    ELSE {B \in SUBSET S : /\ Cardinality(B) = batchBuildChunk
                           /\ \A a \in B, b \in S \ B : ~Less(planes, cid, b, a)}

\* the loop of updateMeshCache over newChunks
RECURSIVE StoreLoop(_, _)
StoreLoop(st, chs) ==
    IF chs = <<>> THEN st
    ELSE LET m == makeChunkMesh(st.cache, Head(chs))
         IN StoreLoop([cache |-> m.cache, mc |-> MeshStore(st.mc, Head(chs).id, m.mesh)],
                      Tail(chs))

\* BlockRender.drawChunks up to the draw calls: forcePlayerChunks, checkChunks
drawChunks ==
    LET r == forceChunks(chunks, meshcache, PlayerChunks(Chunkid(camera)))
    IN /\ chunks' = r.cache
       /\ meshcache' = r.mc
       /\ forced' = forced \cup r.stored
       /\ sigch' = IF sigch < sigchCap THEN sigch + 1 ELSE sigch
       /\ UNCHANGED <<storeVars, accessLog, tall, threadVars, client, calls, unloaded, pushed,
                      camera, renderRadius, pass>>

\* UpdateLoop takes a wake-up; updateMeshCache up to the cut of added
PassScan(planes) ==
    /\ pass.pc = "idle"
    /\ sigch > 0
    /\ sigch' = sigch - 1
    /\ LET cid == Chunkid(camera)
           needed == Needed(cid, renderRadius)
       IN \E B \in Batches(Added(meshcache, needed), planes, cid) :
             pass' = [pc |-> "delete", center |-> cid, needed |-> needed,
                      added |-> B, removed |-> Removed(meshcache, needed)]
    /\ forced' = {}
    /\ UNCHANGED <<storeVars, worldVars, threadVars, camera, renderRadius, meshcache>>

\* updateMeshCache: the loop over removed
PassDelete ==
    /\ pass.pc = "delete"
    /\ meshcache' = [id \in DOMAIN meshcache \ pass.removed |-> meshcache[id]]
    /\ pass' = [pass EXCEPT !.pc = "build"]
    /\ UNCHANGED <<storeVars, worldVars, threadVars, camera, renderRadius, forced, sigch>>

\* updateMeshCache: World.Chunks(added) and the loop over newChunks
PassBuild ==
    /\ pass.pc = "build"
    /\ LET r == Chunks(chunks, SeqOf(pass.added))
           st == StoreLoop([cache |-> r.cache, mc |-> meshcache], r.chunks)
       IN /\ chunks' = st.cache
          /\ meshcache' = st.mc
    /\ pass' = [pass EXCEPT !.pc = "idle"]
    /\ UNCHANGED <<storeVars, accessLog, tall, threadVars, client, calls, unloaded, pushed,
                   camera, renderRadius, forced, sigch>>

\* the blocks the viewer stands in: one in chunk (0,0), one in chunk (1,0)
CameraBlocks == {Vec3(0, 0, 0), Vec3(32, 0, 0)}

\* Game.handleKeyInput: the camera moves
MoveCamera(pos) ==
    /\ pos # camera
    /\ camera' = pos
    /\ UNCHANGED <<storeVars, worldVars, threadVars, renderRadius, meshcache, pass, forced, sigch>>

\* the -r flag
Radii == {1, 2}

InitMesh ==
    /\ InitStoreVars
    /\ chunks = <<>>
    /\ accessLog = <<>>
    /\ tall = {}
    /\ client = "nil"
    /\ calls = EmptyMap
    /\ unloaded = {}
    /\ pushed = Nil
    /\ camera = Vec3(0, 0, 0)
    /\ renderRadius \in Radii
    /\ meshcache = EmptyMap
    /\ pass = NoPass
    /\ forced = {}
    /\ sigch = 0
    /\ InitThreadsIdle

NextMesh ==
    \/ drawChunks
    \/ \E planes \in Frusta : PassScan(planes)
    \/ PassDelete
    \/ PassBuild
    \/ \E pos \in CameraBlocks : MoveCamera(pos)

SpecMesh == InitMesh /\ [][NextMesh]_vars

\* the coordinates within render radius r of chunk cid
Within(cid, r) ==
    {Vec3(cid.X + d[1], 0, cid.Z + d[2]) :
        d \in {e \in (-r .. r) \X (-r .. r) : e[1] * e[1] + e[2] * e[2] <= r * r}}

\* C3 as stated: while no pass is in progress every cached coordinate is
\* within render radius of the viewer's chunk.
CexC3 == pass.pc = "idle" => DOMAIN meshcache \subseteq Within(Chunkid(camera), renderRadius)

\* C3 as amended: while no pass is in progress every cached coordinate is in
\* the needed set of the most recent pass (taken around the chunk the viewer
\* was in when that pass began) or was stored by forcePlayerChunks since that
\* pass began; so a complete pass leaves nothing outside its needed set but
\* what forcePlayerChunks stored while it ran.
ThmC3 == pass.pc = "idle" => DOMAIN meshcache \subseteq pass.needed \cup forced

\* a pass has completed that removed a mesh no longer needed, the viewer has
\* moved on since, and a coordinate forced since is cached outside the needed set
WitC3 ==
    /\ pass.pc = "idle"
    /\ \E id \in pass.removed : id \notin pass.needed
    /\ pass.center # Chunkid(camera)
    /\ \E id \in forced : id \in DOMAIN meshcache /\ id \notin pass.needed

\* C4: for the viewer in chunk (0,0) and render radius 2 the needed set of a
\* pass is every coordinate at squared distance <= 4 from (0,0).
CexC4 ==
    (pass.pc # "idle" /\ renderRadius = 2 /\ pass.center = Vec3(0, 0, 0)) =>
        pass.needed = Within(Vec3(0, 0, 0), 2)

(***************************************************************************)
(* Concurrent World.Chunk calls: World.Chunks starts one goroutine per id, *)
(* for the background pass and for the render thread's forceChunks alike.  *)
(* The lru cache locks each Get and Add; a call is three steps.            *)
(***************************************************************************)
MaxCalls == 2

\* the callers: a goroutine of the background pass, one of forceChunks
Procs == {"bg", "main"}

\* the coordinates they ask for
RaceIds == {Vec3(0, 0, 0), Vec3(1, 0, 0)}

\* World.Chunk(id): loadChunk; a hit returns the stored chunk
ChunkLoad(p, id) ==
    /\ calls[p].pc = "idle"
    /\ calls[p].n < MaxCalls
    /\ LET r == loadChunk(chunks, id)
       IN /\ chunks' = r.cache
          /\ calls' = [calls EXCEPT ![p] =
                 [pc |-> IF r.ok THEN "idle" ELSE "build", id |-> id,
                  chunk |-> r.chunk, n |-> calls[p].n + 1]]
    /\ UNCHANGED <<storeVars, accessLog, tall, threadVars, client, unloaded, pushed, meshVars>>

\* World.Chunk(id) after a miss: NewChunk, makeChunkMap, RangeBlocks and
\* ClientFetchChunk fill a new chunk object; a store error returns nil
ChunkBuild(p) ==
    /\ calls[p].pc = "build"
    /\ calls' = [calls EXCEPT ![p] =
           IF ~dbOpen THEN [@ EXCEPT !.pc = "idle"]
           ELSE [@ EXCEPT !.pc = "store",
                          !.chunk = [id |-> calls[p].id,
                                     blocks |-> Materialize(calls[p].id, tall, blockBucket,
                                                            client, NoRep).blocks,
                                     obj |-> <<p, calls[p].n>>]]]
    /\ UNCHANGED <<storeVars, chunks, accessLog, tall, threadVars, client, unloaded, pushed, meshVars>>

\* World.Chunk(id): storeChunk and return
ChunkStore(p) ==
    /\ calls[p].pc = "store"
    /\ chunks' = storeChunk(chunks, calls[p].id, calls[p].chunk)
    /\ calls' = [calls EXCEPT ![p].pc = "idle"]
    /\ UNCHANGED <<storeVars, accessLog, tall, threadVars, client, unloaded, pushed, meshVars>>

InitChunks ==
    /\ InitStoreVars
    /\ chunks = <<>>
    /\ accessLog = <<>>
    /\ tall \in {{}, {<<0, 0>>}}
    /\ client = "nil"
    /\ calls = [p \in Procs |-> [pc |-> "idle", id |-> Vec3(0, 0, 0), chunk |-> Nil, n |-> 0]]
    /\ unloaded = {}
    /\ pushed = Nil
    /\ InitMeshIdle

NextChunks ==
    \/ \E p \in Procs, id \in RaceIds : ChunkLoad(p, id)
    \/ \E p \in Procs : ChunkBuild(p)
    \/ \E p \in Procs : ChunkStore(p)

SpecChunks == InitChunks /\ [][NextChunks]_vars

\* caller p's lru Add is this step
Stores(p) == calls[p].pc = "store" /\ calls'[p].pc = "idle"

MaxQueue == 2

\* a mutant: NewMesh on the calling thread whatever onmainthread says
NewMeshOn_caller(task, onmainthread) == task

\* the thread NewMesh runs on when task builds a mesh: its own when the caller
\* says it is the render thread, the render thread through mainthread.Call
\* otherwise (makeChunkMesh, UpdateOrAdd)
NewMeshOn(task, onmainthread) == IF onmainthread THEN task ELSE "main"

\* the error of client.Call: nil or a failure (an error reply, a connection
\* that breaks while the call is pending) while the client is up,
\* rpc.ErrShutdown once the connection is lost
CallErrs(cl) == IF cl = "up" THEN {"nil", "error"} ELSE {"shutdown"}

\* a mutant: rpc.ErrShutdown is not told apart from other errors
ClientUpdateBlockOp_noShutdown(cb, cl, err, id, rep) ==
    IF cl = "nil" THEN [chunkBucket |-> cb, panic |-> FALSE]
    ELSE IF err # "nil" THEN [chunkBucket |-> cb, panic |-> TRUE]
    ELSE [chunkBucket |-> VersionPut(cb, Chunkid(id), rep.Version), panic |-> FALSE]

\* ClientUpdateBlock(id, w): the stamps after it, and whether log.Panic is reached
ClientUpdateBlockOp(cb, cl, err, id, rep) ==
    IF cl = "nil" \/ err = "shutdown" THEN [chunkBucket |-> cb, panic |-> FALSE]
    ELSE IF err # "nil" THEN [chunkBucket |-> cb, panic |-> TRUE]
    ELSE [chunkBucket |-> IF dbOpen THEN VersionPut(cb, Chunkid(id), rep.Version) ELSE cb,
          panic |-> FALSE]

\* ClientUpdatePlayerState(state): the players after UpdateOrAdd for each of
\* rep.Players, and whether log.Panic is reached
ClientUpdatePlayerStateOp(pl, cl, err, rep) ==
    IF cl = "nil" \/ err = "shutdown" THEN [players |-> pl, panic |-> FALSE]
    ELSE IF err # "nil" THEN [players |-> pl, panic |-> TRUE]
    ELSE [players |-> pl \cup rep.Players, panic |-> FALSE]

\* the goroutine an edit of block id started: ClientUpdateBlock(id, w)
ClientUpdateBlock(id, w, err, rep) ==
    /\ id \in DOMAIN written
    /\ LET r == ClientUpdateBlockOp(chunkBucket, client, err, id, rep)
       IN /\ chunkBucket' = r.chunkBucket
          /\ panicked' = r.panic
    /\ pushed' = Nil
    /\ UNCHANGED <<blockBucket, dbOpen, opens, written, chunks, accessLog, tall, client,
                   calls, unloaded, players, frame, callQueue, gpu, garbage, waited, view,
                   meshVars>>

\* a tick of Game.syncPlayerLoop: ClientUpdatePlayerState(g.camera.State())
ClientUpdatePlayerState(err, rep) ==
    /\ LET r == ClientUpdatePlayerStateOp(players, client, err, rep)
       IN /\ r.players # players => frame = "idle"
          /\ players' = r.players
          /\ panicked' = r.panic
          /\ gpu' = IF r.players = players THEN gpu
                    ELSE gpu \cup {[op |-> "NewMesh", by |-> "sync",
                                    on |-> NewMeshOn("sync", FALSE)]}
    /\ pushed' = Nil
    /\ UNCHANGED <<storeVars, chunks, accessLog, tall, client, calls, unloaded, frame,
                   callQueue, garbage, waited, view, meshVars>>

\* PlayerService.RemovePlayer(req), pushed by the server
RemovePlayer(id) ==
    /\ client = "up"
    /\ id \in players => Len(callQueue) < MaxQueue
    /\ players' = players \ {id}
    /\ callQueue' = IF id \in players
                    THEN Append(callQueue, [by |-> "rpc", meshes |-> {[player |-> id]}])
                    ELSE callQueue
    /\ pushed' = Nil
    /\ UNCHANGED <<storeVars, chunks, accessLog, tall, client, calls, unloaded, panicked,
                   frame, gpu, garbage, waited, view, meshVars>>

\* World.Chunk(id) on a miss when Block.FetchChunk fails: ClientFetchChunk
\* reaches log.Panic before anything is stored
ChunkCallPanics(id) ==
    /\ id \notin Keys(chunks)
    /\ dbOpen
    /\ client = "up"
    /\ panicked' = TRUE
    /\ pushed' = Nil
    /\ UNCHANGED <<storeVars, chunks, accessLog, tall, client, calls, unloaded, players,
                   frame, callQueue, gpu, garbage, waited, view, meshVars>>

\* the other players the server knows
PlayerIds == {1}

\* the UpdateBlockResponse and UpdateStateResponse values of the server
BlockReplies == [Version : Versions]
StateReplies == [Players : SUBSET PlayerIds]

\* the FetchChunkResponse values with at most one block
NetResponses(id) == {r \in Responses(id) : Len(r.Blocks) <= 1}

NextNet ==
    \/ /\ ~panicked
       /\ \E id \in RemoteChunkIds :
             \E rep \in IF client = "up" /\ id \notin Keys(chunks)
                        THEN NetResponses(id) ELSE {NoRep} :
                ChunkCall(id, rep) /\ pushed' = Nil
                   /\ UNCHANGED <<dbOpen, opens, tall, threadVars, client, calls, meshVars>>
    \/ ~panicked /\ \E id \in RemoteChunkIds : ChunkCallPanics(id)
    \/ ~panicked /\ \E id \in RemoteBlocks, w \in Types : PushUpdateBlock(id, w)
    \/ ~panicked /\ \E id \in RemoteBlocks, tp \in Types : EditBlock(id, tp)
    \/ /\ ~panicked
       /\ \E id \in RemoteBlocks, w \in Types, rep \in BlockReplies :
             \E err \in CallErrs(client) : ClientUpdateBlock(id, w, err, rep)
    \/ /\ ~panicked
       /\ \E rep \in StateReplies :
             \E err \in CallErrs(client) : ClientUpdatePlayerState(err, rep)
    \/ ~panicked /\ Disconnect

SpecNet == InitRemote /\ [][NextNet]_vars

CexC12 == ~panicked

\* C13: the signals of checkChunks coalesce: the passes still owed to the
\* frames drawn so far, the wake-ups waiting in sigch, are at most one.
CexC13 == sigch <= 1

(***************************************************************************)
(* The render thread and the goroutines: Game.Update runs as one function  *)
(* of mainthread.Run, UpdateLoop, syncPlayerLoop and the service handlers  *)
(* run beside it.  A frame is two steps here, so that the other tasks act  *)
(* between forcePlayerChunks and the draw loop.                            *)
(***************************************************************************)
\* Game.Update up to the draw loop of drawChunks: forcePlayerChunks and
\* checkChunks on the render thread; Update's function waits behind the
\* functions queued before it
forcePlayerChunks ==
    /\ frame = "idle"
    /\ callQueue = <<>>
    /\ LET ids == PlayerChunks(Chunkid(camera))
           r == forceChunks(chunks, meshcache, ids)
       IN /\ chunks' = r.cache
          /\ meshcache' = r.mc
          /\ forced' = forced \cup r.stored
          /\ gpu' = IF r.stored = {} THEN gpu
                    ELSE gpu \cup {[op |-> "NewMesh", by |-> "main",
                                    on |-> NewMeshOn("main", TRUE)]}
          /\ callQueue' = Append(callQueue,
                                 [by |-> "main",
                                  meshes |-> {id \in r.stored : id \in DOMAIN meshcache}])
          /\ waited' = IF client = "up" /\ dbOpen /\ \E i \in 1..9 : ids[i] \notin Keys(chunks)
                       THEN waited \cup {"Block.FetchChunk"} ELSE waited
    /\ sigch' = IF sigch < sigchCap THEN sigch + 1 ELSE sigch
    /\ frame' = "draw"
    /\ UNCHANGED <<storeVars, accessLog, tall, client, calls, unloaded, pushed, camera,
                   renderRadius, pass, panicked, players, garbage, view>>

\* the rest of the frame: r.meshcache.Range draws what the cache holds
drawRange ==
    /\ frame = "draw"
    /\ frame' = "idle"
    /\ UNCHANGED <<storeVars, worldVars, meshVars, panicked, players, callQueue, gpu,
                   garbage, waited, view>>

\* mainthread.Run takes the next queued function: the meshes it holds are released
mainthreadRun ==
    /\ frame = "idle"
    /\ callQueue # <<>>
    /\ callQueue' = Tail(callQueue)
    /\ gpu' = IF Head(callQueue).meshes = {} THEN gpu
              ELSE gpu \cup {[op |-> "Release", by |-> Head(callQueue).by, on |-> "main"]}
    /\ UNCHANGED <<storeVars, worldVars, meshVars, panicked, players, frame, garbage, waited, view>>

\* updateMeshCache from World.Chunks(added) to its end: each mesh is made
\* through mainthread.Call, which waits for the frame and the queue, and
\* stored over whatever the cache holds; removedMesh is handed to the render
\* thread
updateMeshCacheBuild ==
    /\ pass.pc = "build"
    /\ pass.added # {} => (frame = "idle" /\ callQueue = <<>>)
    /\ Len(callQueue) < MaxQueue
    /\ LET r == Chunks(chunks, SeqOf(pass.added))
           st == StoreLoop([cache |-> r.cache, mc |-> meshcache], r.chunks)
           built == {r.chunks[i].id : i \in 1..Len(r.chunks)}
       IN /\ chunks' = st.cache
          /\ meshcache' = st.mc
          /\ gpu' = IF built = {} THEN gpu
                    ELSE gpu \cup {[op |-> "NewMesh", by |-> "bg",
                                    on |-> NewMeshOn("bg", FALSE)]}
          /\ garbage' = garbage \cup {id \in built : id \in DOMAIN meshcache}
    /\ callQueue' = Append(callQueue, [by |-> "bg", meshes |-> pass.removed])
    /\ pass' = [pass EXCEPT !.pc = "idle"]
    /\ UNCHANGED <<storeVars, accessLog, tall, client, calls, unloaded, pushed, camera,
                   renderRadius, forced, sigch, panicked, players, frame, waited, view>>

\* the cell the player puts a block in, and the item held
EditBlocks == {Vec3(0, 12, 0)}
Items == {1}

InitThreads ==
    /\ InitStoreVars
    /\ chunks = <<>>
    /\ accessLog = <<>>
    /\ tall = {}
    /\ client = "up"
    /\ calls = EmptyMap
    /\ unloaded = {}
    /\ pushed = Nil
    /\ InitMeshIdle

NextThreads ==
    \/ forcePlayerChunks
    \/ drawRange
    \/ mainthreadRun
    \/ \E planes \in Frusta : PassScan(planes)
    \/ PassDelete
    \/ updateMeshCacheBuild
    \/ frame = "idle" /\ \E id \in EditBlocks, tp \in Items : EditBlock(id, tp)
    \/ \E rep \in StateReplies : ClientUpdatePlayerState("nil", rep)
    \/ \E id \in PlayerIds : RemovePlayer(id)

SpecThreads == InitThreads /\ [][NextThreads]_vars

\* C14: every NewMesh and every Mesh.Release ran on the render thread,
\* whichever task asked for it.
ThmC14 == \A g \in gpu : g.on = "main"

\* the background pass and the player loop have made meshes, and meshes
\* handed over by the background pass and by a service handler were released
WitC14 ==
    /\ \E g \in gpu : g.op = "NewMesh" /\ g.by = "bg"
    /\ \E g \in gpu : g.op = "NewMesh" /\ g.by = "sync"
    /\ \E g \in gpu : g.op = "Release" /\ g.by = "bg"
    /\ \E g \in gpu : g.op = "Release" /\ g.by = "rpc"

(***************************************************************************)
(* Vec3.Chunkid over a range of block coordinates on both sides of zero.   *)
(***************************************************************************)
\* block coordinates run over -MaxCoord .. MaxCoord
MaxCoord == 40
Coords == -MaxCoord .. MaxCoord
Heights == {0, 12}

\* cid := bid.Chunkid() for the block the viewer stands in
ApplyChunkid ==
    /\ pass.pc = "idle"
    /\ pass' = [pass EXCEPT !.pc = "done", !.center = Chunkid(camera)]
    /\ UNCHANGED <<storeVars, worldVars, threadVars, camera, renderRadius, meshcache,
                   forced, sigch>>

InitChunkid ==
    /\ InitStoreVars
    /\ InitWorldIdle
    /\ camera \in {Vec3(x, y, z) : x \in Coords, y \in Heights, z \in Coords}
    /\ renderRadius = 1
    /\ meshcache = EmptyMap
    /\ pass = NoPass
    /\ forced = {}
    /\ sigch = 0
    /\ InitThreadsIdle

NextChunkid == ApplyChunkid

SpecChunkid == InitChunkid /\ [][NextChunkid]_vars

\* C15: Chunkid of a block (x, y, z) is (p, 0, q) with 32p <= x < 32p + 32 and
\* 32q <= z < 32q + 32, for negative x and z as well, and it is the same for
\* every y.
ThmC15 ==
    pass.pc = "done" =>
       LET c == pass.center
       IN /\ c.Y = 0
          /\ ChunkWidth * c.X <= camera.X /\ camera.X < ChunkWidth * c.X + ChunkWidth
          /\ ChunkWidth * c.Z <= camera.Z /\ camera.Z < ChunkWidth * c.Z + ChunkWidth
          /\ \A y \in Heights : Chunkid(Vec3(camera.X, y, camera.Z)) = c

\* a block with x = -1 and z = -32 off the ground: chunk (-1, 0, -1)
WitC15 ==
    /\ pass.pc = "done"
    /\ camera = Vec3(-1, 12, -ChunkWidth)
    /\ pass.center = Vec3(-1, 0, -1)

InitDirty ==
    /\ InitStoreVars
    /\ InitWorldIdle
    /\ camera = Vec3(0, 0, 0)
    /\ renderRadius = 2
    /\ meshcache = EmptyMap
    /\ pass = NoPass
    /\ forced = {}
    /\ sigch = 0
    /\ InitThreadsIdle

NextDirty ==
    \/ drawChunks
    \/ \E planes \in Frusta : PassScan(planes)
    \/ PassDelete
    \/ PassBuild
    \/ \E pos \in CameraBlocks \ {Vec3(0, 0, 0)} : MoveCamera(pos)
    \/ \E id \in EditBlocks, tp \in Items : EditBlock(id, tp)

SpecDirty == InitDirty /\ [][NextDirty]_vars

\* C17: a pass removes the dirty mesh of a coordinate it still needs only if
\* the coordinate is among those it builds.
CexC17 == \A id \in pass.removed \cap pass.needed : id \in pass.added

\* C18: every mesh overwritten or deleted in the cache is released in the
\* end: none is dropped by the last variable that held it without having
\* been handed to the render thread for release.
CexC18 == garbage = {}

\* C19: when the draw loop of a frame walks the mesh cache, each of the nine
\* coordinates around the viewer has a cached mesh that is not dirty,
\* whatever the background pass is doing.
CexC19 ==
    (frame = "draw" /\ dbOpen) =>
       \A i \in 1..9 :
          LET id == PlayerChunks(Chunkid(camera))[i]
          IN id \in DOMAIN meshcache /\ ~meshcache[id].Dirty

\* C20: the render thread, which also runs the input callbacks, waits for no
\* remote call, materialization by forceChunks included.
CexC20 == waited = {}

\* the coordinates a pass needs together with the nine forcePlayerChunks asks for
WorkingSet(cid, r) == Needed(cid, r) \cup {PlayerChunks(cid)[i] : i \in 1..9}

\* C21: the chunk store holds 4 * r * r chunks and the needed coordinates
\* together with the nine around the viewer are never more than that.
CexC21 ==
    /\ Capacity = 4 * renderRadius * renderRadius
    /\ Cardinality(WorkingSet(Chunkid(camera), renderRadius)) <= Capacity

\* C22: a pass builds for at most 4 coordinates however many are missing or
\* dirty: the list it keeps after the cut has at most 4, and its build step
\* materializes at most 4 chunks and stores at most 4 meshes.
ThmC22 ==
    /\ [](Cardinality(pass.added) <= batchBuildChunk)
    /\ [][(pass.pc = "build" /\ pass'.pc = "idle") =>
             /\ Cardinality(Keys(chunks') \ Keys(chunks)) <= batchBuildChunk
             /\ Cardinality({id \in DOMAIN meshcache' :
                                id \notin DOMAIN meshcache
                                   \/ meshcache'[id] # meshcache[id]}) <= batchBuildChunk]_vars

\* a pass that found more than four coordinates to build and kept four
WitC22 ==
    /\ pass.pc = "delete"
    /\ Cardinality(Added(meshcache, pass.needed)) > batchBuildChunk
    /\ Cardinality(pass.added) = batchBuildChunk

\* a ranks before b: inside the frustum before outside, then the smaller
\* squared planar distance to the viewer's chunk
Outranks(planes, cid, a, b) ==
    \/ isChunkVisiable(planes, cid, a) /\ ~isChunkVisiable(planes, cid, b)
    \/ /\ isChunkVisiable(planes, cid, a) = isChunkVisiable(planes, cid, b)
       /\ Dist2(cid, a) < Dist2(cid, b)

\* C23: whichever way the viewer looks, the coordinates a pass keeps to build
\* are a highest-ranked prefix of its to-add set: they are min(4, all) of
\* them and no coordinate left out outranks one that is kept.
ThmC23 ==
    LET cid == Chunkid(camera)
        S == Added(meshcache, Needed(cid, renderRadius))
    IN \A planes \in Frusta :
          /\ Batches(S, planes, cid) # {}
          /\ \A B \in Batches(S, planes, cid) :
                /\ B \subseteq S
                /\ Cardinality(B) = IF Cardinality(S) < batchBuildChunk
                                    THEN Cardinality(S) ELSE batchBuildChunk
                /\ \A a \in B, b \in S \ B : ~Outranks(planes, cid, b, a)

\* a pass kept four of more than four coordinates while the viewer looked
\* east: a nearer coordinate behind the viewer was left out for a farther
\* one in view
WitC23 ==
    /\ pass.pc = "delete"
    /\ Cardinality(Added(meshcache, pass.needed)) > batchBuildChunk
    /\ \E a \in pass.added, b \in Added(meshcache, pass.needed) \ pass.added :
          /\ Dist2(pass.center, b) < Dist2(pass.center, a)
          /\ isChunkVisiable("east", pass.center, a)
          /\ ~isChunkVisiable("east", pass.center, b)

(***************************************************************************)
(* isChunkVisiable over planes with integer coefficients.                  *)
(***************************************************************************)
\* chunk coordinates run over -MaxChunk .. MaxChunk
MaxChunk == 2

\* the height of a chunk's bounding volume
ChunkHeight == 256

\* plane.Dot(point.Vec4(1))
Dot(plane, pt) == plane[1] * pt[1] + plane[2] * pt[2] + plane[3] * pt[3] + plane[4]

\* a mutant: the four corners on the ground only
Points_ground(id) ==
    LET x == id.X * ChunkWidth
        z == id.Z * ChunkWidth
        m == ChunkWidth
    IN << <<x, 0, z>>, <<x + m, 0, z>>, <<x + m, 0, z + m>>, <<x, 0, z + m>> >>

\* the points of isChunkVisiable for chunk id, in its order
Points(id) ==
    LET x == id.X * ChunkWidth
        z == id.Z * ChunkWidth
        m == ChunkWidth
    IN << <<x, 0, z>>, <<x + m, 0, z>>, <<x + m, 0, z + m>>, <<x, 0, z + m>>,
          <<x, ChunkHeight, z>>, <<x + m, ChunkHeight, z>>,
          <<x + m, ChunkHeight, z + m>>, <<x, ChunkHeight, z + m>> >>

\* the loop over the points for one plane: in and out when it ends or breaks
RECURSIVE PointsLoop(_, _, _)
PointsLoop(plane, pts, st) ==
    IF pts = <<>> THEN st
    ELSE LET n == IF Dot(plane, Head(pts)) < 0
                  THEN [in |-> st.in, out |-> st.out + 1]
                  ELSE [in |-> st.in + 1, out |-> st.out]
         IN IF n.in # 0 /\ n.out # 0 THEN n ELSE PointsLoop(plane, Tail(pts), n)

\* isChunkVisiable(planes, id) for a list of planes
RECURSIVE isChunkVisiablePlanes(_, _)
isChunkVisiablePlanes(planes, id) ==
    IF planes = <<>> THEN TRUE
    ELSE IF PointsLoop(Head(planes), Points(id), [in |-> 0, out |-> 0]).in = 0 THEN FALSE
    ELSE isChunkVisiablePlanes(Tail(planes), id)

\* the planes frustumPlanes may give, two for each of left, right, top,
\* bottom, front and back
PlaneChoices ==
    << {<<1, 0, 0, 0>>, <<1, 0, 1, -40>>},
       {<<-1, 0, 0, 48>>, <<-1, 0, 0, 100>>},
       {<<0, -1, 0, 300>>, <<0, -1, 0, -1>>},
       {<<0, 1, 0, 0>>, <<0, 1, 0, -100>>},
       {<<0, 0, 1, 0>>, <<0, 0, 1, 40>>},
       {<<0, 0, -1, 48>>, <<1, 0, -1, 0>>} >>

Frustums == {f \in [1..6 -> UNION {PlaneChoices[i] : i \in 1..6}] :
                \A i \in 1..6 : f[i] \in PlaneChoices[i]}

\* the test of sortChunks and of the draw loop applied to chunk id
TestVisiable(id) ==
    /\ view.shown = Nil
    /\ view' = [view EXCEPT !.shown = [id |-> id,
                                        visible |-> isChunkVisiablePlanes(view.planes, id)]]
    /\ UNCHANGED <<storeVars, worldVars, meshVars, panicked, players, frame, callQueue, gpu,
                   garbage, waited>>

InitVisiable ==
    /\ InitStoreVars
    /\ InitWorldIdle
    /\ camera = Vec3(0, 0, 0)
    /\ renderRadius = 1
    /\ meshcache = EmptyMap
    /\ pass = NoPass
    /\ forced = {}
    /\ sigch = 0
    /\ panicked = FALSE
    /\ players = {}
    /\ frame = "idle"
    /\ callQueue = <<>>
    /\ gpu = {}
    /\ garbage = {}
    /\ waited = {}
    /\ view \in [planes : Frustums, shown : {Nil}]

NextVisiable == \E x \in -MaxChunk .. MaxChunk, z \in -MaxChunk .. MaxChunk :
                   TestVisiable(Vec3(x, 0, z))

SpecVisiable == InitVisiable /\ [][NextVisiable]_vars

\* the corners of chunk id's bounding volume: 32 by 32 on the ground, 256 high
Corners(id) ==
    {<<id.X * ChunkWidth + dx, dy, id.Z * ChunkWidth + dz>> :
        dx \in {0, ChunkWidth}, dy \in {0, ChunkHeight}, dz \in {0, ChunkWidth}}

\* C24: isChunkVisiable is true exactly when each of the 6 planes has at
\* least one of the chunk's 8 corners on its non-negative side; so a chunk
\* with all corners inside is visible and one with all corners on the
\* negative side of a plane is not.
ThmC24 ==
    view.shown # Nil =>
       LET id == view.shown.id
           in(i, pt) == Dot(view.planes[i], pt) >= 0
       IN /\ Len(view.planes) = 6
          /\ view.shown.visible <=> \A i \in 1..6 : \E pt \in Corners(id) : in(i, pt)
          /\ (\A i \in 1..6 : \A pt \in Corners(id) : in(i, pt)) => view.shown.visible
          /\ (\E i \in 1..6 : \A pt \in Corners(id) : ~in(i, pt)) => ~view.shown.visible

\* a chunk visible though a plane has only its upper corners inside, and with
\* corners on both sides of a slanted plane
WitC24 ==
    /\ view.shown # Nil
    /\ view.shown.visible
    /\ view.planes[4] = <<0, 1, 0, -100>>
    /\ view.planes[1] = <<1, 0, 1, -40>>
    /\ \E pt \in Corners(view.shown.id) : Dot(view.planes[1], pt) < 0

\* C25: for the type World.Block gives for any block, as Collide asks,
\* IsObstacle is true exactly when the type is not air (0), not the unknown
\* sentinel (-1) and not a plant id, and IsPlant exactly for 17..31.
CexC25 ==
    \A b \in WorldBlocks :
        LET t == WorldBlock(chunks, b).ret
        IN /\ IsObstacle(t) <=> (t # 0 /\ t # -1 /\ ~(17 <= t /\ t <= 31))
           /\ IsPlant(t) <=> (17 <= t /\ t <= 31)

\* C26: every key of a resident chunk's block map lies in that chunk, and
\* Chunk.Block, Chunk.add and Chunk.del given a block of another chunk panic
\* and leave the block map as it is.
ThmC26 ==
    \A i \in 1..Len(chunks) :
        LET ch == chunks[i].value
        IN /\ ch.id = chunks[i].key
           /\ \A b \in DOMAIN ch.blocks : Chunkid(b) = ch.id
           /\ \A b \in Blocks : Chunkid(b) # ch.id =>
                 /\ ChunkPanics(ch, b)
                 /\ \A w \in Types \ {0} : add(ch, b, w) = ch
                 /\ del(ch, b) = ch

\* both chunks are resident, chunk (0,0) with a block put by an edit or a
\* delta, and there are blocks of the other chunk to hand to each
WitC26 ==
    /\ Keys(chunks) = RemoteChunkIds
    /\ Vec3(0, 12, 0) \in DOMAIN ChunkAt(chunks, Vec3(0, 0, 0)).blocks
    /\ \E b \in Blocks : Chunkid(b) = Vec3(-1, 0, -1)

(***************************************************************************)
(* makeChunkMap column by column: the keys written for column (dx, dz) of  *)
(* a chunk under each outcome of the noise.                                *)
(***************************************************************************)
\* a mutant: a tree may stand on any column
TreeOk_anywhere(dx, dz) == TRUE

\* the margin test of the tree: ok stays true
TreeOk(dx, dz) ==
    ~(dx - 4 < 0 \/ dz - 4 < 0 \/ dx + 4 > ChunkWidth \/ dz + 4 > ChunkWidth)

\* what the noise decides for a column: the height (12 is sand, more is
\* grass), a flower, a tree, a cloud (over the whole of its heights or none)
Noises == [h : {12, 13}, flower : BOOLEAN, tree : BOOLEAN, cloud : BOOLEAN]

\* the keys makeChunkMap(cid) writes in the turn of column (dx, dz)
ColumnKeys(cid, dx, dz, n) ==
    LET x == cid.X * ChunkWidth + dx
        z == cid.Z * ChunkWidth + dz
        h == n.h
        w == IF h <= 12 THEN sandBlock ELSE grassBlock
        ground == {Vec3(x, y, z) : y \in 0 .. h - 1}
        flowers == IF w = grassBlock /\ n.flower THEN {Vec3(x, h, z)} ELSE {}
        leaves == {Vec3(x + o[1], o[2], z + o[3]) :
                     o \in {t \in (-3 .. 3) \X (h + 3 .. h + 7) \X (-3 .. 3) :
                              t[1] * t[1] + t[3] * t[3] + (t[2] - h - 4) * (t[2] - h - 4) < 11}}
        trunk == {Vec3(x, y, z) : y \in h .. h + 6}
        tree == IF w = grassBlock /\ TreeOk(dx, dz) /\ n.tree THEN leaves \cup trunk ELSE {}
        cloud == IF n.cloud THEN {Vec3(x, y, z) : y \in 64 .. 71} ELSE {}
    IN ground \cup flowers \cup tree \cup cloud

\* the chunks generated: both signs of p and q
GenChunkIds == {Vec3(p, 0, q) : p \in {-1, 0}, q \in {-1, 0}}

\* one turn of the loops over dx and dz
GenColumn ==
    /\ calls["main"].pc = "gen"
    /\ calls' = [calls EXCEPT !["main"].pc = "done",
                              !["main"].keys = ColumnKeys(calls["main"].id, calls["main"].dx,
                                                          calls["main"].dz, calls["main"].noise)]
    /\ UNCHANGED <<storeVars, chunks, accessLog, tall, client, unloaded, pushed, meshVars,
                   threadVars>>

InitGen ==
    /\ InitStoreVars
    /\ chunks = <<>>
    /\ accessLog = <<>>
    /\ tall = {}
    /\ client = "nil"
    /\ unloaded = {}
    /\ pushed = Nil
    /\ InitMeshIdle
    /\ \E cid \in GenChunkIds, dx \in 0 .. ChunkWidth - 1, dz \in 0 .. ChunkWidth - 1,
          n \in Noises :
          calls = [p \in {"main"} |-> [pc |-> "gen", id |-> cid, dx |-> dx, dz |-> dz,
                                       noise |-> n, keys |-> {}]]

NextGen == GenColumn

SpecGen == InitGen /\ [][NextGen]_vars

\* C27: whatever the noise gives, every key makeChunkMap(c) writes, the
\* trunk and the leaves of a tree included, is a block of chunk c, so
\* Chunk.add does not panic on it.
ThmC27 ==
    calls["main"].pc = "done" =>
       \A b \in calls["main"].keys :
          /\ Chunkid(b) = calls["main"].id
          /\ ~ChunkPanics(NewChunk(calls["main"].id), b)

\* a tree on the column nearest to the chunk's corner that may carry one, in
\* a chunk with negative coordinates: its leaves reach the chunk's first row
WitC27 ==
    /\ calls["main"].pc = "done"
    /\ calls["main"].id = Vec3(-1, 0, -1)
    /\ calls["main"].dx = 4 /\ calls["main"].dz = 28
    /\ Vec3(-ChunkWidth + 1, 17, -4) \in calls["main"].keys
    /\ Vec3(-ChunkWidth + 4, 17, -1) \in calls["main"].keys

\* C28: after generation, replay of the durable overrides, merge of the
\* remote's deltas, local edits and edits pushed by the server, no resident
\* chunk holds the value 0 for a block: a removal deletes the key, and
\* makeChunkMesh never meets the type 0 it panics on.
ThmC28 ==
    \A i \in 1 .. Len(chunks) :
       \A b \in DOMAIN chunks[i].value.blocks : chunks[i].value.blocks[b] # 0

\* a block the generator gives was removed, the removal is in the durable
\* cache, and the resident chunk has no key for it; another block of the chunk
\* is still there
WitC28 ==
    /\ Vec3(0, 0, 0) \in Keys(chunks)
    /\ Vec3(0, 0, 0) \in DOMAIN written /\ written[Vec3(0, 0, 0)] = 0
    /\ Vec3(0, 0, 0) \notin DOMAIN ChunkAt(chunks, Vec3(0, 0, 0)).blocks
    /\ Vec3(0, 12, 0) \in DOMAIN ChunkAt(chunks, Vec3(0, 0, 0)).blocks

(***************************************************************************)
(* World.Chunk when the read of the durable cache fails: the database is   *)
(* closed (bolt's View returns ErrDatabaseNotOpen).                        *)
(***************************************************************************)
\* World.Chunk(id) without a remote, a whole call; calls keeps what it
\* returned and whether store.RangeBlocks gave an error
WorldChunk(id) ==
    LET r == ChunkLocal(chunks, id)
    IN /\ chunks' = r.cache
       /\ accessLog' = IF r.chunk # Nil THEN Touch(accessLog, id) ELSE accessLog
       /\ unloaded' = unloaded \cup Evicted
       /\ calls' = [p \in {"main"} |->
                      [pc |-> "returned", id |-> id, chunk |-> r.chunk,
                       err |-> id \notin Keys(chunks) /\ ~dbOpen]]
       /\ pushed' = Nil
       /\ UNCHANGED <<storeVars, tall, client, meshVars, threadVars>>

InitReadFail ==
    /\ InitStoreVars
    /\ chunks = <<>>
    /\ accessLog = <<>>
    /\ tall \in {{}, {<<0, 0>>}}
    /\ client = "nil"
    /\ calls = [p \in {"main"} |-> [pc |-> "idle", id |-> Vec3(0, 0, 0), chunk |-> Nil,
                                    err |-> FALSE]]
    /\ unloaded = {}
    /\ pushed = Nil
    /\ camera = Vec3(0, 0, 0)
    /\ renderRadius = 1
    /\ meshcache = EmptyMap
    /\ pass = NoPass
    /\ forced = {}
    /\ sigch = 0
    /\ InitThreadsIdle

\* the chunks asked for: those of the followed blocks
ReadFailIds == {Chunkid(b) : b \in WorldBlocks}

NextReadFail ==
    \/ \E id \in ReadFailIds : WorldChunk(id)
    \/ \E id \in WorldBlocks, tp \in Types : EditBlock(id, tp)
    \/ \E id \in WorldBlocks : BlockRead(id)
    \/ StoreClose /\ UNCHANGED <<worldVars, threadVars, meshVars>>

SpecReadFail == InitReadFail /\ [][NextReadFail]_vars

\* the chunks World.Chunks returns for every coordinate of the specification
ChunksOfAll ==
    Chunks(chunks, <<Vec3(0, 0, 0), Vec3(-1, 0, -1)>>).chunks

\* C29: when store.RangeBlocks fails while World.Chunk materializes chunk c,
\* World.Chunk returns no chunk and stores nothing for c, World.Chunks leaves c
\* out of its result, World.Block answers -1 for the blocks of c, and the
\* process goes on.
ThmC29 ==
    calls["main"].err =>
       LET c == calls["main"].id
       IN /\ calls["main"].chunk = Nil
          /\ c \notin Keys(chunks)
          /\ \A i \in 1 .. Len(ChunksOfAll) : ChunksOfAll[i].id # c
          /\ \A b \in WorldBlocks : Chunkid(b) = c => WorldBlock(chunks, b).ret = -1
          /\ ~panicked

\* the read failed for a chunk with a followed block while another chunk,
\* materialized before the database was closed, is resident and edited
WitC29 ==
    /\ calls["main"].err
    /\ calls["main"].id = Vec3(-1, 0, -1)
    /\ Vec3(0, 0, 0) \in Keys(chunks)
    /\ Vec3(0, 12, 0) \in DOMAIN written
    /\ Len(ChunksOfAll) = 1

(***************************************************************************)
(* makeChunkMesh on one block and its six neighbours.                      *)
(***************************************************************************)
\* the block meshed: one on the floor in the corner of chunk (0,0), whose left
\* and back neighbours are of other chunks, and one inside the chunk
FaceBlocks == {Vec3(0, 0, 0), Vec3(5, 12, 5)}

\* what a neighbouring cell holds: air, grass block, water, leaves, a plant
FaceTypes == {0, grassBlock, 10, 15, 17}

\* the chunk of block b with b a grass block and nb[i] in the cell Lookups(b)[i]
FaceChunk(b, nb) ==
    Overlay(NewChunk(Chunkid(b)),
            <<[bid |-> b, w |-> grassBlock]>>
               \o [i \in 1 .. 6 |-> [bid |-> Lookups(b)[i], w |-> nb[i]]])

\* makeChunkMesh(chunk, _) for the chunk in calls
MeshBlock ==
    /\ calls["main"].pc = "idle"
    /\ chunks' = makeChunkMesh(chunks, calls["main"].chunk).cache
    /\ calls' = [calls EXCEPT !["main"].pc = "meshed",
                              !["main"].faces = Faces(chunks, calls["main"].chunk)]
    /\ UNCHANGED <<storeVars, accessLog, tall, client, unloaded, pushed, meshVars,
                   threadVars>>

InitFaces ==
    /\ InitStoreVars
    /\ accessLog = <<>>
    /\ tall = {}
    /\ client = "nil"
    /\ unloaded = {}
    /\ pushed = Nil
    /\ InitMeshIdle
    /\ \E b \in FaceBlocks, resident \in BOOLEAN :
       \E nb \in [1 .. 6 -> IF resident THEN FaceTypes ELSE {0, grassBlock}] :
          /\ chunks = IF resident
                      THEN <<[key |-> Chunkid(b), value |-> FaceChunk(b, nb)]>>
                      ELSE <<>>
          /\ calls = [p \in {"main"} |-> [pc |-> "idle", id |-> b,
                                          chunk |-> FaceChunk(b, nb), faces |-> {}]]

NextFaces == MeshBlock

SpecFaces == InitFaces /\ [][NextFaces]_vars

\* the type of cell n as the world knows it: -1 when its chunk is not resident
CellType(n) ==
    IF Chunkid(n) \notin Keys(chunks) THEN -1
    ELSE IF n \in DOMAIN ChunkAt(chunks, Chunkid(n)).blocks
    THEN ChunkAt(chunks, Chunkid(n)).blocks[n]
    ELSE 0

\* C30: for a block of the chunk that is not a plant, makeChunkMesh appends
\* the face of a direction exactly when the neighbour in that direction is
\* air, water (10), leaves (15), a plant (17..31) or unknown (-1); the bottom
\* face of a block at y = 0 is never appended.
ThmC30 ==
    calls["main"].pc = "meshed" =>
       \A b \in DOMAIN calls["main"].chunk.blocks :
          ~(calls["main"].chunk.blocks[b] \in 17 .. 31) =>
             \A i \in 1 .. 6 :
                (<<b, i>> \in calls["main"].faces)
                   <=> /\ CellType(Lookups(b)[i]) \in {0, 10, 15, -1} \cup (17 .. 31)
                       /\ ~(i = 4 /\ b.Y = 0)

\* the block on the floor in the chunk's corner: its left and back faces are
\* drawn for the unknown neighbours, its top face for the water above, not its
\* right face against a grass block nor its bottom face over air
WitC30 ==
    /\ calls["main"].pc = "meshed"
    /\ calls["main"].id = Vec3(0, 0, 0)
    /\ Vec3(0, 0, 0) \in Keys(chunks)
    /\ CellType(Vec3(1, 0, 0)) = grassBlock
    /\ CellType(Vec3(0, 1, 0)) = 10
    /\ CellType(Vec3(0, -1, 0)) = 0
    /\ {i \in 1 .. 6 : <<Vec3(0, 0, 0), i>> \in calls["main"].faces} \cap {1, 2, 3, 4, 6}
          = {1, 3, 6}

(***************************************************************************)
(* World.Chunks: one goroutine per coordinate sends what World.Chunk       *)
(* returned on an unbuffered channel; the caller receives len(ids) times.  *)
(***************************************************************************)
\* the requests: lists of distinct coordinates, as updateMeshCache and
\* forceChunks build them
JoinRequests ==
    {<<>>, <<Vec3(0, 0, 0)>>, <<Vec3(0, 0, 0), Vec3(-1, 0, -1)>>,
     <<Vec3(-1, 0, -1), Vec3(0, 0, 0)>>}

\* a mutant: the caller returns after the first result
ChunksDone_first(got, ids) == got >= 1

\* the loop "for range ids" of the caller is over
ChunksDone(got, ids) == got = Len(ids)

\* World.Chunks(ids) up to the start of the goroutines
ChunksStart(ids) ==
    /\ calls.main.pc \in {"idle", "returned"}
    /\ calls.main.n < MaxCalls
    /\ calls' = [main |-> [pc |-> IF ChunksDone(0, ids) THEN "returned" ELSE "wait",
                           ids |-> ids, got |-> 0, chunks |-> <<>>,
                           n |-> calls.main.n + 1],
                 go |-> [i \in 1 .. Len(ids) |-> [pc |-> "run", id |-> ids[i], chunk |-> Nil]]]
    /\ UNCHANGED <<storeVars, chunks, accessLog, tall, client, unloaded, pushed, meshVars,
                   threadVars>>

\* goroutine i: w.Chunk(id), a whole call; it then waits to send
GoChunk(i) ==
    /\ calls.go[i].pc = "run"
    /\ LET r == ChunkLocal(chunks, calls.go[i].id)
       IN /\ chunks' = r.cache
          /\ accessLog' = IF r.chunk # Nil THEN Touch(accessLog, calls.go[i].id)
                          ELSE accessLog
          /\ calls' = [calls EXCEPT !.go[i].pc = "send", !.go[i].chunk = r.chunk]
    /\ unloaded' = unloaded \cup Evicted
    /\ UNCHANGED <<storeVars, tall, client, pushed, meshVars, threadVars>>

\* chunk := <-ch, from goroutine i: a nil chunk is not appended
ChunksReceive(i) ==
    /\ calls.main.pc = "wait"
    /\ calls.go[i].pc = "send"
    /\ calls' = [calls EXCEPT
                   !.go[i].pc = "done",
                   !.main.got = @ + 1,
                   !.main.chunks = IF calls.go[i].chunk # Nil
                                   THEN Append(@, calls.go[i].chunk) ELSE @,
                   !.main.pc = IF ChunksDone(calls.main.got + 1, calls.main.ids)
                               THEN "returned" ELSE "wait"]
    /\ UNCHANGED <<storeVars, chunks, accessLog, tall, client, unloaded, pushed, meshVars,
                   threadVars>>

InitJoin ==
    /\ InitStoreVars
    /\ chunks = <<>>
    /\ accessLog = <<>>
    /\ tall \in {{}, {<<0, 0>>}}
    /\ client = "nil"
    /\ calls = [main |-> [pc |-> "idle", ids |-> <<>>, got |-> 0, chunks |-> <<>>, n |-> 0],
                go |-> <<>>]
    /\ unloaded = {}
    /\ pushed = Nil
    /\ camera = Vec3(0, 0, 0)
    /\ renderRadius = 1
    /\ meshcache = EmptyMap
    /\ pass = NoPass
    /\ forced = {}
    /\ sigch = 0
    /\ InitThreadsIdle

NextJoin ==
    \/ \E ids \in JoinRequests : ChunksStart(ids)
    \/ \E i \in DOMAIN calls.go : GoChunk(i)
    \/ \E i \in DOMAIN calls.go : ChunksReceive(i)
    \/ StoreClose /\ UNCHANGED <<worldVars, threadVars, meshVars>>

SpecJoin == InitJoin /\ [][NextJoin]_vars

\* C31: when World.Chunks(ids) has returned, every goroutine has finished
\* World.Chunk and handed its result over, and the result holds one chunk for
\* each requested coordinate whose World.Chunk gave a chunk, nothing else, in
\* whatever order; the caller waits only for a request that is not empty.
ThmC31 ==
    /\ calls.main.pc = "returned" =>
          /\ \A i \in DOMAIN calls.go : calls.go[i].pc = "done"
          /\ \A i \in DOMAIN calls.go :
                calls.go[i].chunk # Nil =>
                   Cardinality({j \in 1 .. Len(calls.main.chunks) :
                                   calls.main.chunks[j].id = calls.go[i].id}) = 1
          /\ \A j \in 1 .. Len(calls.main.chunks) :
                \E i \in DOMAIN calls.go : calls.go[i].chunk = calls.main.chunks[j]
    /\ calls.main.pc = "wait" => calls.main.ids # <<>>

\* two coordinates were asked for, the database was closed between the two
\* materializations, the result holds the second coordinate only
WitC31 ==
    /\ calls.main.pc = "returned"
    /\ calls.main.ids = <<Vec3(0, 0, 0), Vec3(-1, 0, -1)>>
    /\ Len(calls.main.chunks) = 1
    /\ calls.main.chunks[1].id = Vec3(-1, 0, -1)
    /\ calls.go[1].chunk = Nil

(***************************************************************************)
(* World.Chunk calls of the background pass and of the render thread,      *)
(* step by step, with the edits of the input callbacks between them.       *)
(***************************************************************************)
\* the block edited: of the first of RaceIds
RaceBlocks == {Vec3(0, 12, 0)}

NextRace ==
    \/ \E p \in Procs, id \in RaceIds : ChunkLoad(p, id)
    \/ \E p \in Procs : ChunkBuild(p)
    \/ \E p \in Procs : ChunkStore(p)
    \/ \E id \in RaceBlocks, tp \in Types : calls["main"].pc = "idle" /\ EditBlock(id, tp)

SpecRace == InitChunks /\ [][NextRace]_vars

\* C32: a block whose last edit was applied to its resident chunk reads as
\* the edit left it, also after a World.Chunk call that was materializing the
\* same coordinate during the edit has stored its chunk.
CexC32 ==
    \A b \in DOMAIN written :
       (b \notin unloaded /\ Chunkid(b) \in Keys(chunks)) =>
          WorldBlock(chunks, b).ret = written[b]

\* what World.Chunk(id) would build on a miss now, the remote being lost
\* (up = FALSE) or answering with no deltas under the persisted stamp
Rebuilt(id, up) ==
    Materialize(id, tall, blockBucket, IF up THEN "up" ELSE "shutdown",
                [Blocks |-> <<>>, Version |-> GetChunkVersion(chunkBucket, id)])

\* C33: a chunk materialized with the remote up, its stamp persisted, has the
\* block map a later materialization gives when the remote reports no change
\* or is lost, for the blocks the remote added and for those it removed.
CexC33 ==
    \A id \in RemoteChunkIds :
       (id \in Keys(chunks) /\ GetChunkVersion(chunkBucket, id) # "") =>
          \A up \in BOOLEAN : Rebuilt(id, up).blocks = ChunkAt(chunks, id).blocks

(***************************************************************************)
(* The build of a pass in two steps: makeChunkMesh reads the blocks and    *)
(* waits for the render thread to make the mesh, which runs the input      *)
(* callbacks first; then the mesh is stored.                               *)
(***************************************************************************)
\* the meshes of chs in turn, each made from the chunk store as the lookups
\* before it left it
RECURSIVE MakeLoop(_, _)
MakeLoop(st, chs) ==
    IF chs = <<>> THEN st
    ELSE LET m == makeChunkMesh(st.cache, Head(chs))
         IN MakeLoop([cache |-> m.cache, made |-> Append(st.made, m.mesh)], Tail(chs))

\* r.meshcache.Store for each mesh made
RECURSIVE StoreMade(_, _)
StoreMade(mc, made) ==
    IF made = <<>> THEN mc
    ELSE StoreMade(MeshStore(mc, Head(made).Id, Head(made)), Tail(made))

\* updateMeshCache: World.Chunks(added) and makeChunkMesh up to mainthread.Call
PassMake ==
    /\ pass.pc = "build"
    /\ LET r == Chunks(chunks, SeqOf(pass.added))
           st == MakeLoop([cache |-> r.cache, made |-> <<>>], r.chunks)
       IN /\ chunks' = st.cache
          /\ pass' = [pc |-> "store", center |-> pass.center, needed |-> pass.needed,
                      added |-> pass.added, removed |-> pass.removed, made |-> st.made]
    /\ UNCHANGED <<storeVars, accessLog, tall, threadVars, client, calls, unloaded, pushed,
                   camera, renderRadius, meshcache, forced, sigch>>

\* updateMeshCache: the meshes come back and are stored
PassStore ==
    /\ pass.pc = "store"
    /\ meshcache' = StoreMade(meshcache, pass.made)
    /\ pass' = [pc |-> "idle", center |-> pass.center, needed |-> pass.needed,
                added |-> pass.added, removed |-> pass.removed]
    /\ UNCHANGED <<storeVars, worldVars, threadVars, camera, renderRadius, forced, sigch>>

\* the left button removes, the right button places item 1
StaleItems == {0, 1}

NextStale ==
    \/ drawChunks
    \/ \E planes \in Frusta : PassScan(planes)
    \/ PassDelete
    \/ PassMake
    \/ PassStore
    \/ \E id \in EditBlocks, tp \in StaleItems : EditBlock(id, tp)

SpecStale == InitDirty /\ [][NextStale]_vars

\* C34: while no pass is building, a cached mesh that is not dirty shows its
\* chunk as it is now: it has the faces makeChunkMesh gives for the chunk's
\* present blocks, also when an edit came while the mesh was being made or
\* after the pass had deleted the old mesh.
CexC34 ==
    pass.pc = "idle" =>
       \A c \in DOMAIN meshcache :
          (~meshcache[c].Dirty /\ c \in Keys(chunks)) =>
             meshcache[c].faces = Cardinality(Faces(chunks, ChunkAt(chunks, c)))

(***************************************************************************)
(* Edits of the player and edits pushed by the server, with meshes cached. *)
(***************************************************************************)
\* the blocks edited: one at the border of chunk (0,0), next to two other
\* chunks, and one inside the chunk
PushBlocks == {Vec3(0, 12, 0), Vec3(5, 12, 5)}

NextPush ==
    \/ drawChunks
    \/ \E id \in PushBlocks, w \in StaleItems : PushUpdateBlock(id, w)
    \/ \E id \in PushBlocks, tp \in StaleItems : EditBlock(id, tp)

SpecPush == InitThreads /\ [][NextPush]_vars

\* the chunks that draw block b or a face towards it: its own and those of
\* its four horizontal neighbours
Touching(b) ==
    {Chunkid(b), Chunkid(Vec3(b.X - 1, b.Y, b.Z)), Chunkid(Vec3(b.X + 1, b.Y, b.Z)),
     Chunkid(Vec3(b.X, b.Y, b.Z + 1)), Chunkid(Vec3(b.X, b.Y, b.Z - 1))}

\* C35: a step that changes a block, the player's edit or the server's push,
\* leaves dirty every cached mesh of the block's chunk and of the adjacent
\* chunks that hold a horizontal neighbour of the block.
CexC35 ==
    [][\A b \in PushBlocks :
          (b \in DOMAIN written' /\ (b \notin DOMAIN written \/ written'[b] # written[b])) =>
             \A c \in Touching(b) \cap DOMAIN meshcache' : meshcache'[c].Dirty]_vars

(***************************************************************************)
(* The goroutines the mouse callback starts: each edit runs                *)
(* "go ClientUpdateBlock(id, w)".  calls.go holds the goroutines that have *)
(* not sent yet, calls.sent the requests in the order the remote got them. *)
(***************************************************************************)
\* Game.onMouseButtonCallback, the whole handler: World.UpdateBlock, dirtyBlock
\* and the start of the goroutine; n numbers the edits
MouseButton(id, tp) ==
    /\ calls.n < MaxCalls
    /\ IF tp = 0 THEN WorldBlock(chunks, id).ret \notin {-1, 0}
                 ELSE WorldBlock(chunks, id).ret \in {-1, 0}
    /\ UpdateBlock(id, tp)
    /\ meshcache' = dirtyBlock(meshcache, id)
    /\ pushed' = Nil
    /\ calls' = [calls EXCEPT !.go = @ \cup {[id |-> id, w |-> tp, n |-> calls.n + 1]},
                              !.n = @ + 1]
    /\ UNCHANGED <<chunkBucket, dbOpen, opens, tall, threadVars, client,
                   camera, renderRadius, pass, forced, sigch>>

\* goroutine g: client.Call("Block.UpdateBlock") reaches the remote and
\* returns; the stamp of the response is persisted
CallUpdateBlock(g, rep) ==
    /\ g \in calls.go
    /\ calls' = [calls EXCEPT !.go = @ \ {g}, !.sent = Append(@, g)]
    /\ chunkBucket' = ClientUpdateBlockOp(chunkBucket, client, "nil", g.id, rep).chunkBucket
    /\ pushed' = Nil
    /\ UNCHANGED <<blockBucket, dbOpen, opens, written, chunks, accessLog, tall, client,
                   unloaded, threadVars, meshVars>>

InitOrder ==
    /\ InitStoreVars
    /\ chunks = <<>>
    /\ accessLog = <<>>
    /\ tall \in {{}, {<<0, 0>>}}
    /\ client = "up"
    /\ calls = [go |-> {}, sent |-> <<>>, n |-> 0]
    /\ unloaded = {}
    /\ pushed = Nil
    /\ InitMeshIdle

NextOrder ==
    \/ /\ ChunkCall(Vec3(0, 0, 0), NoRep)
       /\ pushed' = Nil
       /\ UNCHANGED <<dbOpen, opens, tall, threadVars, client, calls, meshVars>>
    \/ \E id \in PushBlocks, tp \in Types : MouseButton(id, tp)
    \/ \E g \in calls.go, rep \in BlockReplies : CallUpdateBlock(g, rep)

SpecOrder == InitOrder /\ [][NextOrder]_vars

\* the last request the remote got for block b, 0 for none
RECURSIVE LastSent(_, _)
LastSent(sent, b) ==
    IF sent = <<>> THEN 0
    ELSE IF sent[Len(sent)].id = b THEN sent[Len(sent)].n
    ELSE LastSent(SubSeq(sent, 1, Len(sent) - 1), b)

\* C36: the requests for a block reach the remote in the order of the edits,
\* and when no request is in flight the last one the remote got for the block
\* carries the value the client wrote last.
CexC36 ==
    /\ \A i, j \in 1 .. Len(calls.sent) :
          (i < j /\ calls.sent[i].id = calls.sent[j].id) => calls.sent[i].n < calls.sent[j].n
    /\ calls.go = {} =>
          \A b \in PushBlocks :
             LastSent(calls.sent, b) # 0 =>
                \E i \in 1 .. Len(calls.sent) :
                   /\ calls.sent[i].n = LastSent(calls.sent, b)
                   /\ calls.sent[i].w = written[b]

(***************************************************************************)
(* The table of remote players: a Go map without a lock, written by        *)
(* syncPlayerLoop and by the rpc handler, ranged over by the render        *)
(* thread.  The frame has a third step here, the loop of                   *)
(* PlayerRender.Draw.                                                      *)
(***************************************************************************)
\* Game.Update from the draw loop of the blocks to "for _, p := range
\* r.players"
drawPlayers ==
    /\ frame = "draw"
    /\ frame' = "players"
    /\ UNCHANGED <<storeVars, worldVars, meshVars, panicked, players, callQueue, gpu,
                   garbage, waited, view>>

\* the loop over r.players ends, and with it the frame
drawPlayersEnd ==
    /\ frame = "players"
    /\ frame' = "idle"
    /\ UNCHANGED <<storeVars, worldVars, meshVars, panicked, players, callQueue, gpu,
                   garbage, waited, view>>

\* PlayerRender.UpdateOrAdd(id, s) for an id not in the table, up to the
\* return of mainthread.Call: the render thread makes the mesh between frames
UpdateOrAddMesh(id) ==
    /\ client = "up"
    /\ calls.pc = "idle"
    /\ id \notin players
    /\ frame = "idle" /\ callQueue = <<>>
    /\ gpu' = gpu \cup {[op |-> "NewMesh", by |-> "sync", on |-> NewMeshOn("sync", FALSE)]}
    /\ calls' = [pc |-> "insert", id |-> id]
    /\ pushed' = Nil
    /\ UNCHANGED <<storeVars, chunks, accessLog, tall, client, unloaded, panicked, players,
                   frame, callQueue, garbage, waited, view, meshVars>>

\* PlayerRender.UpdateOrAdd: r.players[id] = p
UpdateOrAddInsert ==
    /\ calls.pc = "insert"
    /\ players' = players \cup {calls.id}
    /\ calls' = [calls EXCEPT !.pc = "idle"]
    /\ pushed' = Nil
    /\ UNCHANGED <<storeVars, chunks, accessLog, tall, client, unloaded, panicked, frame,
                   callQueue, gpu, garbage, waited, view, meshVars>>

InitPlayers ==
    /\ InitStoreVars
    /\ chunks = <<>>
    /\ accessLog = <<>>
    /\ tall = {}
    /\ client = "up"
    /\ calls = [pc |-> "idle", id |-> 1]
    /\ unloaded = {}
    /\ pushed = Nil
    /\ InitMeshIdle

NextPlayers ==
    \/ forcePlayerChunks
    \/ drawPlayers
    \/ drawPlayersEnd
    \/ mainthreadRun
    \/ \E id \in PlayerIds : UpdateOrAddMesh(id)
    \/ UpdateOrAddInsert
    \/ \E id \in PlayerIds : RemovePlayer(id)

SpecPlayers == InitPlayers /\ [][NextPlayers]_vars

\* C37: no step inserts into or deletes from the table of remote players
\* while the render thread is in the loop of PlayerRender.Draw.
CexC37 == [][frame = "players" => players' = players]_vars

\* C38: wherever the viewer goes, no step drops from the chunk store a chunk
\* the viewer's position needs while it keeps one that is not needed.
CexC38 ==
    [][\A c \in Keys(chunks) \ Keys(chunks') :
          c \in Needed(Chunkid(camera), renderRadius) =>
             Keys(chunks') \subseteq Needed(Chunkid(camera), renderRadius)]_vars

(***************************************************************************)
(* The viewer at rest: frames go on being drawn, each raising the signal,  *)
(* and UpdateLoop goes on taking it and running its pass to the end.       *)
(***************************************************************************)
NextConverge ==
    \/ drawChunks
    \/ \E planes \in Frusta : PassScan(planes)
    \/ PassDelete
    \/ PassBuild

\* a frame would change nothing: the nine meshes are cached and clean, their
\* chunks at the front of the store, and sigch is full
FrameIdle ==
    LET r == forceChunks(chunks, meshcache, PlayerChunks(Chunkid(camera)))
    IN r.cache = chunks /\ r.mc = meshcache /\ r.stored \subseteq forced /\ sigch = sigchCap

\* weak fairness of the frames and of the steps of UpdateLoop, the enabling
\* conditions written out
SpecConverge ==
    /\ InitMesh
    /\ [][NextConverge]_vars
    /\ ([]<>FrameIdle \/ []<><<drawChunks>>_vars)
    /\ WF_vars(\E planes \in Frusta : PassScan(planes))
    /\ WF_vars(PassDelete)
    /\ ([]<>(pass.pc # "build") \/ []<><<PassBuild>>_vars)

\* the mesh cache holds a clean mesh for each needed coordinate and no other
Converged ==
    /\ DOMAIN meshcache = Needed(Chunkid(camera), renderRadius)
    /\ \A c \in DOMAIN meshcache : ~meshcache[c].Dirty

\* C39: with the viewer at rest, no edit, no push and no failure, the mesh
\* cache comes to hold a clean mesh for every needed coordinate and for no
\* other, and stays so.
CexC39 == <>[]Converged

(***************************************************************************)
(* The two interpolation states of a remote player.  In this               *)
(* specification players is the table itself: id -> [s1, s2].              *)
(***************************************************************************)
\* the playerState values UpdateOrAdd builds: a position and glfw.GetTime()
PlayerStates == [X : {0, 1}, time : {1, 2}]

\* the zero value of playerState, which the fields of a new Player hold
zeroState == [X |-> 0, time |-> 0]

\* Player.UpdateState(s): p.s1, p.s2 = p.s2, s
UpdateState(p, s) == [s1 |-> p.s2, s2 |-> s]

\* PlayerRender.UpdateOrAdd(id, s), the table after it: a new Player gets
\* p.s1 = state before p.UpdateState(state)
UpdateOrAdd(tbl, id, s) ==
    LET p == IF id \in DOMAIN tbl THEN tbl[id] ELSE [s1 |-> s, s2 |-> zeroState]
    IN [k \in DOMAIN tbl \cup {id} |-> IF k = id THEN UpdateState(p, s) ELSE tbl[k]]

\* the ids the server reports
InterpIds == {1, 2}

\* a call of UpdateOrAdd from ClientUpdatePlayerState; the mesh of a new
\* player is made by the render thread; calls keeps the call and the table
\* it found
UpdateOrAddState(id, s) ==
    /\ players' = UpdateOrAdd(players, id, s)
    /\ gpu' = IF id \in DOMAIN players THEN gpu
              ELSE gpu \cup {[op |-> "NewMesh", by |-> "sync",
                              on |-> NewMeshOn("sync", FALSE)]}
    /\ calls' = [pc |-> "returned", id |-> id, s |-> s, was |-> players]
    /\ UNCHANGED <<storeVars, chunks, accessLog, tall, client, unloaded, pushed, meshVars,
                   panicked, frame, callQueue, garbage, waited, view>>

InitInterp ==
    /\ InitStoreVars
    /\ chunks = <<>>
    /\ accessLog = <<>>
    /\ tall = {}
    /\ client = "up"
    /\ calls = [pc |-> "idle", id |-> 1, s |-> zeroState, was |-> EmptyMap]
    /\ unloaded = {}
    /\ pushed = Nil
    /\ camera = Vec3(0, 0, 0)
    /\ renderRadius = 1
    /\ meshcache = EmptyMap
    /\ pass = NoPass
    /\ forced = {}
    /\ sigch = 0
    /\ panicked = FALSE
    /\ players = EmptyMap
    /\ frame = "idle"
    /\ callQueue = <<>>
    /\ gpu = {}
    /\ garbage = {}
    /\ waited = {}
    /\ view = NoView

NextInterp == \E id \in InterpIds, s \in PlayerStates : UpdateOrAddState(id, s)

SpecInterp == InitInterp /\ [][NextInterp]_vars

\* C40: after UpdateOrAdd(id, s), a player that was not in the table has
\* s1 = s2 = s, and a player that was has for s1 the s2 it had before and
\* s2 = s.
CexC40 ==
    calls.pc = "returned" =>
       LET p == players[calls.id]
       IN IF calls.id \notin DOMAIN calls.was
          THEN p.s1 = calls.s /\ p.s2 = calls.s
          ELSE p.s1 = calls.was[calls.id].s2 /\ p.s2 = calls.s

====
